---- MODULE Spec2Model ----
(***************************************************************************)
(* A model of the proof-generating BDD SAT solver (solver/bdd.py,          *)
(* solver/pgbdd.py): the Prover's clause store, the BDD Manager (unique    *)
(* table, operation cache, apply operations, garbage collection), the      *)
(* Term layer and the Solver driver with its scheduling strategies.        *)
(*                                                                         *)
(* Nodes are named by their integer id.  Python keeps a node object alive  *)
(* as long as something refers to it, also after garbage collection has    *)
(* removed it from the unique table, so the model keeps a heap (nodes)     *)
(* apart from the unique table (table).                                    *)
(*                                                                         *)
(* An operation of the code that changes the Manager or the Prover is an   *)
(* operator from the state record M to a record holding the new state and  *)
(* the returned values.  The statements of one function are spread over a  *)
(* chain of operators, each taking the result of the statement before it   *)
(* as a parameter.                                                         *)
(***************************************************************************)
EXTENDS Integers, Sequences, FiniteSets, TLC

VARIABLES
    mgr,            \* Manager and Prover state (record, see NewManager)
    litMap,         \* Solver.litMap: signed input id -> literal node
    activeIds,      \* Solver.activeIds: term id -> term
    storeTerms,     \* Solver.storeTerms: term id -> term
    termCount,      \* Solver.termCount
    unsat,          \* Solver.unsat
    idStack,        \* runSchedule: idStack
    registerDict,   \* runSchedule: registerDict, name -> [id, term]
    buckets,        \* runBucketSchedule: buckets, level -> list of ids
    blevel,         \* runBucketSchedule: loop variable
    nid,            \* runNoSchedule: nid
    cnf,            \* the clauses read by CnfReader
    mode,           \* what runs: a strategy, "seq", "bucket" or "sched", or
                    \* a client of the Prover, "prover", or the Manager, "mgr"
    pc,             \* "start", "run", "sat", "unsat" or the exception raised
    last            \* what the last combine or quantify step did (observation)

vars == <<mgr, litMap, activeIds, storeTerms, termCount, unsat, idStack,
          registerDict, buckets, blevel, nid, cnf, mode, pc, last>>

---------------------------------------------------------------------------
(* Bounds of the model *)

\* Input variables the clauses of a CNF may mention
MaxVar == 2
\* Clauses in a CNF
MaxClauses == 3

(* Program constants *)

gcThreshold == 10
leafLevel == -1
tautologyId == 1000000000

leaf1 == tautologyId
leaf0 == -tautologyId

IsLeaf(n) == n = leaf1 \/ n = leaf0

Abs(x) == IF x < 0 THEN -x ELSE x
MinInt(a, b) == IF a > b THEN b ELSE a
MaxInt(a, b) == IF a > b THEN a ELSE b

---------------------------------------------------------------------------
(* Sequence and dictionary helpers *)

RECURSIVE SortedSeq(_)
SortedSeq(S) ==
    IF S = {} THEN <<>>
    ELSE LET m == CHOOSE x \in S : \A y \in S : x <= y
         IN <<m>> \o SortedSeq(S \ {m})

Range(s) == {s[i] : i \in DOMAIN s}

\* The elements of s at the (ascending) positions in idx
SubSeqAt(s, idx) == LET p == SortedSeq(idx) IN [i \in 1..Len(p) |-> s[p[i]]]

RECURSIVE SortInts(_)
SortInts(s) ==
    IF s = <<>> THEN <<>>
    ELSE LET m == CHOOSE i \in DOMAIN s : \A j \in DOMAIN s : s[i] <= s[j]
         IN <<s[m]>> \o SortInts(SubSeqAt(s, DOMAIN s \ {m}))

RECURSIVE ConcatAll(_)
ConcatAll(ss) == IF ss = <<>> THEN <<>> ELSE Head(ss) \o ConcatAll(Tail(ss))

\* del d[k] for the keys in S
DictRemove(d, S) == [k \in DOMAIN d \ S |-> d[k]]

\* d[k] = v
DictPut(d, k, v) ==
    IF k \in DOMAIN d THEN [d EXCEPT ![k] = v] ELSE (k :> v) @@ d

---------------------------------------------------------------------------
(* Resolver utilities *)

\* cleanClause: the tautology sentinel for a clause holding a true literal
\* or a literal and its negation; otherwise the literals without duplicates
\* and without the false literal (the zero leaf's id)
cleanClause(lits) ==
    LET L == Range(lits)
    IN IF tautologyId \in L \/ \E x \in L : -x \in L
           THEN [taut |-> TRUE, lits |-> <<>>]
           ELSE [taut |-> FALSE,
                 lits |-> SubSeqAt(lits, {i \in DOMAIN lits :
                                /\ lits[i] # -tautologyId
                                /\ \A j \in 1..(i-1) : lits[j] # lits[i]})]

---------------------------------------------------------------------------
(* Prover *)

\* Prover.comment, for a text format: the state after
comment(M, given) ==
    IF M.verbLevel > 1 /\ given THEN [M EXCEPT !.comments = @ + 1] ELSE M

\* createClause counting a tautology as a clause
AddClauseCounting(M, c, ants, isInput) ==
    IF c.taut THEN [M |-> [M EXCEPT !.clauseCount = @ + 1], id |-> tautologyId]
    ELSE [M |-> [comment(M, isInput /\ M.doLrat)
                    EXCEPT !.clauseCount = @ + 1,
                           !.proof = Append(@,
                               [id |-> M.clauseCount + 1, lits |-> c.lits,
                                ants |-> ants, isInput |-> isInput,
                                dead |-> {Abs(a) : a \in Range(ants)}
                                             \ DOMAIN M.clauseDict]),
                           !.clauseDict = DictPut(@, M.clauseCount + 1, c.lits)],
          id |-> M.clauseCount + 1]

\* Prover.createClause after the comment is written, the literals are
\* cleaned and the antecedents ordered: the counter, the record written (as
\* a comment for an input clause of an LRAT proof) and the dictionary entry
AddClause(M, c, ants, isInput) ==
    IF c.taut THEN [M |-> M, id |-> tautologyId]
    ELSE [M |-> [comment(M, isInput /\ M.doLrat)
                    EXCEPT !.clauseCount = @ + 1,
                           !.proof = Append(@,
                               [id |-> M.clauseCount + 1, lits |-> c.lits,
                                ants |-> ants, isInput |-> isInput,
                                dead |-> {Abs(a) : a \in Range(ants)}
                                             \ DOMAIN M.clauseDict]),
                           !.clauseDict = DictPut(@, M.clauseCount + 1, c.lits)],
          id |-> M.clauseCount + 1]

\* createClause storing the literals as given, not as cleaned
createClauseRaw(M, result, antecedent, given, isInput) ==
    AddClause(comment(M, given),
              [taut |-> cleanClause(result).taut, lits |-> result],
              IF M.doLrat THEN antecedent ELSE SortInts(antecedent), isInput)

\* createClause sorting the antecedents in every mode
createClauseSorting(M, result, antecedent, given, isInput) ==
    AddClause(comment(M, given), cleanClause(result), SortInts(antecedent),
              isInput)

\* Prover.createClause: [M |-> state after, id |-> clause id or sentinel];
\* given says that the caller passes a comment
createClause(M, result, antecedent, given, isInput) ==
    AddClause(comment(M, given), cleanClause(result),
              IF M.doLrat THEN antecedent ELSE SortInts(antecedent), isInput)

\* The positions of clauseList at which del self.clauseDict[id] fails
MissingAt(M, clauseList) ==
    {i \in DOMAIN clauseList :
        \/ clauseList[i] \notin DOMAIN M.clauseDict
        \/ \E j \in 1..(i-1) : clauseList[j] = clauseList[i]}

\* deleteClauses writing the deletion record in every mode
deleteClausesWriting(M, clauseList) ==
    [M |-> [M EXCEPT !.clauseDict = DictRemove(@, Range(clauseList)),
                     !.deletions = Append(@, [last |-> M.clauseCount,
                                              ids |-> clauseList])],
     ok |-> MissingAt(M, clauseList) = {}]

\* Prover.deleteClauses: a missing id raises KeyError, after the ids in
\* front of it were removed.  [M, ok]
deleteClauses(M, clauseList) ==
    LET bad == MissingAt(M, clauseList)
        stop == IF bad = {} THEN Len(clauseList) + 1
                ELSE CHOOSE i \in bad : \A j \in bad : i <= j
    IN [M |-> [M EXCEPT !.clauseDict =
                            DictRemove(@, {clauseList[i] : i \in 1..(stop - 1)}),
                        !.deletions = IF bad = {} /\ M.doLrat
                                      THEN Append(@, [last |-> M.clauseCount,
                                                      ids |-> clauseList])
                                      ELSE @],
        ok |-> bad = {}]

---------------------------------------------------------------------------
(* Variables and nodes *)

\* Variable.__lt__ on levels: a leaf is below no variable, every real
\* variable is below a leaf
VarLT(l1, l2) ==
    IF l1 = leafLevel THEN FALSE
    ELSE IF l2 = leafLevel THEN TRUE
    ELSE l1 < l2

\* __gt__ as functools.total_ordering derives it from __lt__ and __eq__
VarGT(l1, l2) == ~(VarLT(l1, l2) \/ l1 = l2)

\* min(a, b) returning the second variable whatever the levels
MinVarSecond(l1, l2) == l2

\* Python's min(a, b): b only when b < a
MinVar(l1, l2) == IF VarLT(l2, l1) THEN l2 ELSE l1

\* node.variable.level
Level(M, n) == IF IsLeaf(n) THEN leafLevel ELSE M.nodes[n].level

High(M, n) == M.nodes[n].high
Low(M, n) == M.nodes[n].low

\* VariableNode.branchHigh / branchLow for a nonleaf node whose variable
\* is not above the split variable
branchHigh(M, n, level) == IF Level(M, n) = level THEN High(M, n) ELSE n
branchLow(M, n, level) == IF Level(M, n) = level THEN Low(M, n) ELSE n

\* Manager.__init__ as Solver.__init__ calls it, with the Prover's fields
NewManager(varId, doLrat) ==
    [varId |-> varId,            \* level -> id of the variable (Variable.id)
     nodes |-> <<>>,             \* id -> node object (the heap)
     table |-> {},               \* ids of the nodes in uniqueTable
     cache |-> <<>>,             \* operationCache, in insertion order
     nextNodeId |-> Len(varId) + 1,
     qvars |-> {},               \* quantifiedVariableSet (levels)
     lastGC |-> 0,
     gcCount |-> 0,
     nodeCount |-> 0,
     maxLiveCount |-> 0,
     nodesRemoved |-> 0,
     cacheRemoved |-> 0,
     clauseCount |-> 0,          \* Prover.clauseCount
     clauseDict |-> <<>>,        \* Prover.clauseDict
     proof |-> <<>>,             \* the addition records written
     deletions |-> <<>>,         \* the deletion records written
     comments |-> 0,             \* the comment lines written to the proof
     verbLevel |-> 0,            \* Prover.verbLevel
     doLrat |-> doLrat]

\* VariableNode.__init__, the node object once its four clauses exist
NodeMade(level, high, low, r1, r2, r3, r4) ==
    [M |-> r4.M,
     node |-> [level |-> level, high |-> high, low |-> low,
               inferTrueUp |-> r1.id, inferFalseUp |-> r2.id,
               inferTrueDown |-> r3.id, inferFalseDown |-> r4.id]]

\* VariableNode.__init__, inferFalseDown
NodeFalseDown(id, vid, level, high, low, r1, r2, ants, r3) ==
    NodeMade(level, high, low, r1, r2, r3,
             createClause(r3.M, <<-id, vid, low>>, ants, FALSE, FALSE))

\* VariableNode.__init__, inferTrueDown
NodeTrueDown(id, vid, level, high, low, r1, r2, ants) ==
    NodeFalseDown(id, vid, level, high, low, r1, r2, ants,
                  createClause(r2.M, <<-id, -vid, high>>, ants, FALSE, FALSE))

\* VariableNode.__init__, the antecedents of the two Down clauses
NodeDown(lrat, id, vid, level, high, low, r1, r2) ==
    NodeTrueDown(id, vid, level, high, low, r1, r2,
                 IF lrat
                 THEN (IF r1.id # tautologyId THEN <<-r1.id>> ELSE <<>>)
                      \o (IF r2.id # tautologyId THEN <<-r2.id>> ELSE <<>>)
                 ELSE <<>>)

\* VariableNode.__init__, inferFalseUp
NodeFalseUp(lrat, id, vid, level, high, low, r1) ==
    NodeDown(lrat, id, vid, level, high, low, r1,
             createClause(r1.M, <<id, vid, -low>>, <<>>, FALSE, FALSE))

\* VariableNode.__init__: [M, node], the node object and its ITE clauses
VariableNode(M, id, level, high, low) ==
    NodeFalseUp(M.doLrat, id, M.varId[level], level, high, low,
                createClause(M, <<id, -M.varId[level], -high>>, <<>>, TRUE, FALSE))

\* The nodes of the unique table stored under key (level, high.id, low.id)
TableAt(M, level, high, low) ==
    {n \in M.table : /\ M.nodes[n].level = level
                     /\ M.nodes[n].high = high
                     /\ M.nodes[n].low = low}

\* The else branch leaving nextNodeId as it was
InsertNodeStay(id, live, v) ==
    [M |-> [v.M EXCEPT !.nodes = DictPut(@, id, v.node),
                       !.table = @ \cup {id},
                       !.nodeCount = @ + 1,
                       !.maxLiveCount = IF live > @ THEN live ELSE @],
     n |-> id]

\* Manager.findOrMake, the else branch once the node object exists
InsertNode(id, live, v) ==
    [M |-> [v.M EXCEPT !.nodes = DictPut(@, id, v.node),
                       !.nextNodeId = id + 1,
                       !.table = @ \cup {id},
                       !.nodeCount = @ + 1,
                       !.maxLiveCount = IF live > @ THEN live ELSE @],
     n |-> id]

\* findOrMake that does not look the key up
findOrMakeNew(M, level, high, low) ==
    InsertNode(M.nextNodeId, Cardinality(M.table) + 1,
               VariableNode(M, M.nextNodeId, level, high, low))

\* Manager.findOrMake: [M, n]
findOrMake(M, level, high, low) ==
    IF TableAt(M, level, high, low) # {}
    THEN [M |-> M, n |-> CHOOSE n \in TableAt(M, level, high, low) : TRUE]
    ELSE InsertNode(M.nextNodeId, Cardinality(M.table) + 1,
                    VariableNode(M, M.nextNodeId, level, high, low))

\* Manager.literal
literal(M, level, phase) ==
    findOrMake(M, level, IF phase = 1 THEN leaf1 ELSE leaf0,
                         IF phase = 1 THEN leaf0 ELSE leaf1)

---------------------------------------------------------------------------
(* Operation cache *)

CacheHas(M, key) == \E i \in DOMAIN M.cache : M.cache[i].key = key

CacheGet(M, key) ==
    M.cache[CHOOSE i \in DOMAIN M.cache : M.cache[i].key = key].val

\* self.operationCache[key] = (res, justification, clauseList)
CachePut(M, key, res, just, clauses) ==
    IF CacheHas(M, key)
    THEN [M EXCEPT !.cache = [i \in DOMAIN @ |->
            IF @[i].key = key
            THEN [key |-> key,
                  val |-> [res |-> res, just |-> just, clauses |-> clauses]]
            ELSE @[i]]]
    ELSE [M EXCEPT !.cache = Append(@,
            [key |-> key,
             val |-> [res |-> res, just |-> just, clauses |-> clauses]])]

---------------------------------------------------------------------------
(* Apply operations without proofs *)

RECURSIVE applyOr(_, _, _)

\* applyOr: the result is stored in the cache
applyOrStore(key, rn) ==
    [M |-> CachePut(rn.M, key, rn.n, tautologyId, <<>>), n |-> rn.n]

\* applyOr: equal cofactors are reused, others get a node
applyOrNode(key, splitVar, rh, rl) ==
    applyOrStore(key, IF rh.n = rl.n THEN [M |-> rl.M, n |-> rh.n]
                      ELSE findOrMake(rl.M, splitVar, rh.n, rl.n))

\* applyOr: the recursion on the low cofactors
applyOrLow(M, key, nodeA, nodeB, splitVar, rh) ==
    applyOrNode(key, splitVar, rh,
                applyOr(rh.M, branchLow(M, nodeA, splitVar),
                              branchLow(M, nodeB, splitVar)))

\* applyOr: the cache lookup and the recursion on the high cofactors
applyOrOrdered(M, key, nodeA, nodeB, splitVar) ==
    IF CacheHas(M, key) THEN [M |-> M, n |-> CacheGet(M, key).res]
    ELSE applyOrLow(M, key, nodeA, nodeB, splitVar,
                    applyOr(M, branchHigh(M, nodeA, splitVar),
                               branchHigh(M, nodeB, splitVar)))

\* Manager.applyOr: [M, n]
applyOr(M, nodeA, nodeB) ==
    IF nodeA = leaf1 \/ nodeB = leaf1 THEN [M |-> M, n |-> leaf1]
    ELSE IF nodeA = leaf0 THEN [M |-> M, n |-> nodeB]
    ELSE IF nodeB = leaf0 THEN [M |-> M, n |-> nodeA]
    ELSE IF nodeA = nodeB THEN [M |-> M, n |-> nodeA]
    ELSE applyOrOrdered(M, <<"or", MinInt(nodeA, nodeB), MaxInt(nodeA, nodeB)>>,
                        MinInt(nodeA, nodeB), MaxInt(nodeA, nodeB),
                        MinVar(Level(M, MinInt(nodeA, nodeB)),
                               Level(M, MaxInt(nodeA, nodeB))))

RECURSIVE applyNot(_, _)

\* applyNot making a node without looking the key up
applyNotNodeNew(key, level, rh, rl) ==
    applyOrStore(key, findOrMakeNew(rl.M, level, rh.n, rl.n))

\* applyNot: the node of the two results, stored in the cache
applyNotNode(key, level, rh, rl) ==
    applyOrStore(key, findOrMake(rl.M, level, rh.n, rl.n))

\* applyNot: the recursion on the low child
applyNotLow(M, node, rh) ==
    applyNotNode(<<"not", node>>, Level(M, node), rh,
                 applyNot(rh.M, Low(M, node)))

\* Manager.applyNot: [M, n]
applyNot(M, node) ==
    IF node = leaf1 THEN [M |-> M, n |-> leaf0]
    ELSE IF node = leaf0 THEN [M |-> M, n |-> leaf1]
    ELSE IF CacheHas(M, <<"not", node>>)
         THEN [M |-> M, n |-> CacheGet(M, <<"not", node>>).res]
    ELSE applyNotLow(M, node, applyNot(M, High(M, node)))

\* self.operationCache[key] = newNode: the value is the node itself and no
\* tuple.  The entry carries 0 in the place of the justification, which is
\* no clause id and not the sentinel.
CachePutNode(M, key, res) == CachePut(M, key, res, 0, <<>>)

\* The value of an entry is a tuple (result, justification, clauseList)
IsTuple(val) == val.just # 0

RECURSIVE applyAnd(_, _, _)

\* applyAnd: the result is stored in the cache
applyAndStore(key, rn) ==
    [M |-> CachePutNode(rn.M, key, rn.n), n |-> rn.n]

\* applyAnd taking the high result for the node
applyAndNodeHigh(key, splitVar, rh, rl) ==
    applyAndStore(key, [M |-> rl.M, n |-> rh.n])

\* applyAnd: equal results are reused, others get a node
applyAndNode(key, splitVar, rh, rl) ==
    applyAndStore(key, IF rh.n = rl.n THEN [M |-> rl.M, n |-> rh.n]
                       ELSE findOrMake(rl.M, splitVar, rh.n, rl.n))

\* applyAnd: the recursion on the low cofactors
applyAndLow(M, key, nodeA, nodeB, splitVar, rh) ==
    applyAndNode(key, splitVar, rh,
                 applyAnd(rh.M, branchLow(M, nodeA, splitVar),
                                branchLow(M, nodeB, splitVar)))

\* applyAnd: the cache lookup and the recursion on the high cofactors
applyAndOrdered(M, key, nodeA, nodeB, splitVar) ==
    IF CacheHas(M, key) THEN [M |-> M, n |-> CacheGet(M, key).res]
    ELSE applyAndLow(M, key, nodeA, nodeB, splitVar,
                     applyAnd(M, branchHigh(M, nodeA, splitVar),
                                 branchHigh(M, nodeB, splitVar)))

\* Manager.applyAnd: [M, n]
applyAnd(M, nodeA, nodeB) ==
    IF nodeA = leaf0 \/ nodeB = leaf0 THEN [M |-> M, n |-> leaf0]
    ELSE IF nodeA = leaf1 THEN [M |-> M, n |-> nodeB]
    ELSE IF nodeB = leaf1 THEN [M |-> M, n |-> nodeA]
    ELSE IF nodeA = nodeB THEN [M |-> M, n |-> nodeA]
    ELSE applyAndOrdered(M, <<"andnj", MinInt(nodeA, nodeB), MaxInt(nodeA, nodeB)>>,
                         MinInt(nodeA, nodeB), MaxInt(nodeA, nodeB),
                         MinVar(Level(M, MinInt(nodeA, nodeB)),
                                Level(M, MaxInt(nodeA, nodeB))))

RECURSIVE applyXor(_, _, _)

\* applyXor: equal results are reused, others get a node; the result is
\* stored in the cache
applyXorNode(key, splitVar, rh, rl) ==
    applyOrStore(key, IF rh.n = rl.n THEN [M |-> rl.M, n |-> rh.n]
                      ELSE findOrMake(rl.M, splitVar, rh.n, rl.n))

\* applyXor: the recursion on the low cofactors
applyXorLow(M, key, nodeA, nodeB, splitVar, rh) ==
    applyXorNode(key, splitVar, rh,
                 applyXor(rh.M, branchLow(M, nodeA, splitVar),
                                branchLow(M, nodeB, splitVar)))

\* applyXor: the cache lookup and the recursion on the high cofactors
applyXorOrdered(M, key, nodeA, nodeB, splitVar) ==
    IF CacheHas(M, key) THEN [M |-> M, n |-> CacheGet(M, key).res]
    ELSE applyXorLow(M, key, nodeA, nodeB, splitVar,
                     applyXor(M, branchHigh(M, nodeA, splitVar),
                                 branchHigh(M, nodeB, splitVar)))

\* Manager.applyXor: [M, n]
applyXor(M, nodeA, nodeB) ==
    IF nodeA = leaf1 THEN applyNot(M, nodeB)
    ELSE IF nodeB = leaf1 THEN applyNot(M, nodeA)
    ELSE IF nodeA = leaf0 THEN [M |-> M, n |-> nodeB]
    ELSE IF nodeB = leaf0 THEN [M |-> M, n |-> nodeA]
    ELSE IF nodeA = nodeB THEN [M |-> M, n |-> leaf0]
    ELSE applyXorOrdered(M, <<"xor", MinInt(nodeA, nodeB), MaxInt(nodeA, nodeB)>>,
                         MinInt(nodeA, nodeB), MaxInt(nodeA, nodeB),
                         MinVar(Level(M, MinInt(nodeA, nodeB)),
                                Level(M, MaxInt(nodeA, nodeB))))

\* Manager.reduceList with operator applyOr, as buildClause uses it
RECURSIVE reduceListOr(_, _)
reduceListOr(nodeList, r) ==
    IF nodeList = <<>> THEN r
    ELSE reduceListOr(Tail(nodeList), applyOr(r.M, r.n, Head(nodeList)))

\* sorted(literalList, key = -level): stable, descending level
RECURSIVE SortByLevelDesc(_, _)
SortByLevelDesc(M, s) ==
    IF s = <<>> THEN <<>>
    ELSE LET m == CHOOSE i \in DOMAIN s :
                     /\ \A j \in DOMAIN s : Level(M, s[i]) >= Level(M, s[j])
                     /\ \A j \in 1..(i-1) : Level(M, s[j]) # Level(M, s[i])
         IN <<s[m]>> \o SortByLevelDesc(M, SubSeqAt(s, DOMAIN s \ {m}))

\* Manager.buildClause: [M, n]
buildClause(M, literalList) ==
    reduceListOr(SortByLevelDesc(M, literalList), [M |-> M, n |-> leaf0])

\* Manager.deconstructClause
RECURSIVE deconstructClause(_, _)
deconstructClause(M, clause) ==
    IF IsLeaf(clause) THEN <<>>
    ELSE <<clause>> \o deconstructClause(M, IF High(M, clause) = leaf1
                                            THEN Low(M, clause)
                                            ELSE High(M, clause))

\* constructClause: the antecedents one literal node of the chain gives
NodeAntecedents(node) ==
    IF node.high = leaf1
    THEN <<node.inferTrueUp>>
         \o (IF node.low # leaf0 THEN <<node.inferFalseUp>> ELSE <<>>)
    ELSE <<node.inferFalseUp>>
         \o (IF node.high # leaf0 THEN <<node.inferTrueUp>> ELSE <<>>)

\* constructClause: the loop over the literal nodes of the chain
RECURSIVE ClauseAntecedents(_, _)
ClauseAntecedents(M, lits) ==
    IF lits = <<>> THEN <<>>
    ELSE NodeAntecedents(M.nodes[Head(lits)]) \o ClauseAntecedents(M, Tail(lits))

\* constructClause: the validation clause of the root
constructValidate(root, v) == [M |-> v.M, root |-> root, validation |-> v.id]

\* constructClause putting the input clause in front
constructBuiltFirst(clauseId, b) ==
    constructValidate(b.n,
        createClause(b.M, <<b.n>>,
                     <<clauseId>>
                     \o ClauseAntecedents(b.M, deconstructClause(b.M, b.n)),
                     TRUE, FALSE))

\* constructClause: after buildClause
constructBuilt(clauseId, b) ==
    constructValidate(b.n,
        createClause(b.M, <<b.n>>,
                     Append(ClauseAntecedents(b.M, deconstructClause(b.M, b.n)),
                            clauseId),
                     TRUE, FALSE))

\* Manager.constructClause: [M, root, validation]
constructClause(M, clauseId, literalList) ==
    constructBuilt(clauseId, buildClause(M, literalList))

---------------------------------------------------------------------------
(* Resolver: run(target, ruleIndex) derives the target clause from the   *)
(* named rules by resolution steps, each registered with the Prover, and  *)
(* returns the id of the final clause with the list of the ids created.   *)
(* The rules of the high cofactor are resolved into one clause, those of  *)
(* the low cofactor into another, and the two give the target.            *)

\* The literals of a clause ever written
ClauseLits(M, id) == M.proof[id].lits

\* The resolvent of two clauses
Resolvent(a, b) ==
    SortedSeq({x \in Range(a) \cup Range(b) : -x \notin Range(a) \cup Range(b)})

\* One resolution step: the clause created joins the clauses of the run
ChainAdd(acc, lits, c) ==
    [M |-> c.M, id |-> c.id, lits |-> lits,
     created |-> IF c.id = tautologyId THEN acc.created
                 ELSE Append(acc.created, c.id)]

ChainStep(acc, rule, lits) ==
    ChainAdd(acc, lits, createClause(acc.M, lits, <<acc.id, rule>>, FALSE, FALSE))

\* The rules of one cofactor, resolved from left to right; a rule that is
\* the tautology sentinel is skipped
RECURSIVE ResolveChain(_, _)
ResolveChain(rules, acc) ==
    IF rules = <<>> THEN acc
    ELSE ResolveChain(Tail(rules),
            IF Head(rules) = tautologyId THEN acc
            ELSE IF acc.id = tautologyId
                 THEN [acc EXCEPT !.id = Head(rules),
                                  !.lits = ClauseLits(acc.M, Head(rules))]
                 ELSE ChainStep(acc, Head(rules),
                        Resolvent(acc.lits, ClauseLits(acc.M, Head(rules)))))

RunDone(l, c) ==
    [M |-> c.M, just |-> c.id, clauses |-> Append(l.created, c.id)]

\* The final step yields the target
RunFinal(target, h, l) ==
    RunDone(l, createClause(l.M, target,
                (IF h.id # tautologyId THEN <<h.id>> ELSE <<>>)
                \o (IF l.id # tautologyId THEN <<l.id>> ELSE <<>>),
                FALSE, FALSE))

RunLow(target, lowRules, h) ==
    RunFinal(target, h,
             ResolveChain(lowRules, [M |-> h.M, id |-> tautologyId,
                                     lits |-> <<>>, created |-> h.created]))

\* run: [M, just, clauses]
ResolverRun(M, target, highRules, lowRules) ==
    RunLow(target, lowRules,
           ResolveChain(highRules, [M |-> M, id |-> tautologyId,
                                    lits |-> <<>>, created |-> <<>>]))

---------------------------------------------------------------------------
(* Apply operations with proofs *)

\* ruleIndex["UHD"], ["ULD"] and ["VHD"], ["VLD"] of applyAndJustify, and
\* ["UHD"], ["ULD"], ["VHU"], ["VLU"] of justifyImply; absent rules are the
\* tautology sentinel
DependsOn(M, n, splitVar) == branchHigh(M, n, splitVar) # branchLow(M, n, splitVar)

RuleOf(M, n, splitVar, field) ==
    IF DependsOn(M, n, splitVar) THEN M.nodes[n][field] ELSE tautologyId

RECURSIVE applyAndJustify(_, _, _)

\* applyAndJustify caching the sentinel in place of the justification
andStoreSentinel(key, n, j) ==
    [M |-> CachePut(j.M, key, n, tautologyId, j.clauses), n |-> n, just |-> j.just]

\* applyAndJustify: the cache entry and the returned pair
andStore(key, n, j) ==
    [M |-> CachePut(j.M, key, n, j.just, j.clauses), n |-> n, just |-> j.just]

\* applyAndJustify: the target clause and the run of the resolver
andJustify(key, target, highRules, lowRules, rn) ==
    andStore(key, rn.n,
             IF target.taut
             THEN [M |-> rn.M, just |-> tautologyId, clauses |-> <<>>]
             ELSE ResolverRun(rn.M, target.lits, highRules, lowRules))

\* applyAndJustify: the rules of the new node
andRules(key, nodeA, nodeB, d, rh, rl, rn) ==
    andJustify(key, cleanClause(<<-nodeA, -nodeB, rn.n>>),
               <<rh.just,
                 IF rh.n = rl.n THEN tautologyId ELSE rn.M.nodes[rn.n].inferTrueUp,
                 d.UHD, d.VHD>>,
               <<rl.just,
                 IF rh.n = rl.n THEN tautologyId ELSE rn.M.nodes[rn.n].inferFalseUp,
                 d.ULD, d.VLD>>,
               rn)

\* applyAndJustify: equal results are reused, others get a node
andNode(key, nodeA, nodeB, splitVar, d, rh, rl) ==
    andRules(key, nodeA, nodeB, d, rh, rl,
             IF rh.n = rl.n THEN [M |-> rl.M, n |-> rh.n]
             ELSE findOrMake(rl.M, splitVar, rh.n, rl.n))

\* applyAndJustify: the recursion on the low cofactors
andLow(M, key, nodeA, nodeB, splitVar, d, rh) ==
    andNode(key, nodeA, nodeB, splitVar, d, rh,
            applyAndJustify(rh.M, branchLow(M, nodeA, splitVar),
                                  branchLow(M, nodeB, splitVar)))

\* applyAndJustify: the cache lookup and the recursion on the high cofactors
andOrdered(M, key, nodeA, nodeB, splitVar) ==
    IF CacheHas(M, key)
    THEN [M |-> M, n |-> CacheGet(M, key).res, just |-> CacheGet(M, key).just]
    ELSE andLow(M, key, nodeA, nodeB, splitVar,
                [UHD |-> RuleOf(M, nodeA, splitVar, "inferTrueDown"),
                 ULD |-> RuleOf(M, nodeA, splitVar, "inferFalseDown"),
                 VHD |-> RuleOf(M, nodeB, splitVar, "inferTrueDown"),
                 VLD |-> RuleOf(M, nodeB, splitVar, "inferFalseDown")],
                applyAndJustify(M, branchHigh(M, nodeA, splitVar),
                                   branchHigh(M, nodeB, splitVar)))

\* Manager.applyAndJustify: [M, n, just]
applyAndJustify(M, nodeA, nodeB) ==
    IF nodeA = leaf0 \/ nodeB = leaf0
        THEN [M |-> M, n |-> leaf0, just |-> tautologyId]
    ELSE IF nodeA = leaf1 THEN [M |-> M, n |-> nodeB, just |-> tautologyId]
    ELSE IF nodeB = leaf1 THEN [M |-> M, n |-> nodeA, just |-> tautologyId]
    ELSE IF nodeA = nodeB THEN [M |-> M, n |-> nodeA, just |-> tautologyId]
    ELSE andOrdered(M, <<"and", MinInt(nodeA, nodeB), MaxInt(nodeA, nodeB)>>,
                    MinInt(nodeA, nodeB), MaxInt(nodeA, nodeB),
                    MinVar(Level(M, MinInt(nodeA, nodeB)),
                           Level(M, MaxInt(nodeA, nodeB))))

RECURSIVE justifyImply(_, _, _)

\* justifyImply: the cache entry and the returned pair.  The cached result
\* is the truth value, 1 for True and 0 for False
implyStore(key, check, j) ==
    [M |-> CachePut(j.M, key, IF check THEN 1 ELSE 0, j.just, j.clauses),
     check |-> check, just |-> j.just]

\* justifyImply: the run of the resolver when both cofactors imply
implyJustify(key, nodeA, nodeB, d, ih, il) ==
    implyStore(key, ih.check /\ il.check,
               IF ih.check /\ il.check
               THEN ResolverRun(il.M, cleanClause(<<-nodeA, nodeB>>).lits,
                                <<ih.just, d.VHU, d.UHD>>,
                                <<il.just, d.VLU, d.ULD>>)
               ELSE [M |-> il.M, just |-> tautologyId, clauses |-> <<>>])

\* justifyImply: the recursion on the low cofactors
implyLow(M, key, nodeA, nodeB, splitVar, d, ih) ==
    implyJustify(key, nodeA, nodeB, d, ih,
                 justifyImply(ih.M, branchLow(M, nodeA, splitVar),
                                    branchLow(M, nodeB, splitVar)))

\* justifyImply: the cache lookup and the recursion on the high cofactors
implySplit(M, key, nodeA, nodeB, splitVar) ==
    IF CacheHas(M, key)
    THEN [M |-> M, check |-> CacheGet(M, key).res = 1,
          just |-> CacheGet(M, key).just]
    ELSE implyLow(M, key, nodeA, nodeB, splitVar,
                  [UHD |-> RuleOf(M, nodeA, splitVar, "inferTrueDown"),
                   ULD |-> RuleOf(M, nodeA, splitVar, "inferFalseDown"),
                   VHU |-> RuleOf(M, nodeB, splitVar, "inferTrueUp"),
                   VLU |-> RuleOf(M, nodeB, splitVar, "inferFalseUp")],
                  justifyImply(M, branchHigh(M, nodeA, splitVar),
                                  branchHigh(M, nodeB, splitVar)))

\* Manager.justifyImply: [M, check, just]
justifyImply(M, nodeA, nodeB) ==
    IF nodeA = nodeB \/ nodeA = leaf0 \/ nodeB = leaf1
        THEN [M |-> M, check |-> TRUE, just |-> tautologyId]
    ELSE IF nodeA = leaf1 \/ nodeB = leaf0
        THEN [M |-> M, check |-> FALSE, just |-> tautologyId]
    ELSE implySplit(M, <<"imply", nodeA, nodeB>>, nodeA, nodeB,
                    MinVar(Level(M, nodeA), Level(M, nodeB)))

---------------------------------------------------------------------------
(* Existential quantification *)

\* The variables of a clause of positive literals (nextc = nextc.low)
RECURSIVE ClauseVars(_, _)
ClauseVars(M, clause) ==
    IF IsLeaf(clause) THEN {}
    ELSE {Level(M, clause)} \cup ClauseVars(M, Low(M, clause))

\* The while loop of equant left out: the clause stays where it is
SkipClauseStay(M, node, clause) == clause

\* while not clause.isLeaf() and node.variable > clause.variable
RECURSIVE SkipClause(_, _, _)
SkipClause(M, node, clause) ==
    IF ~IsLeaf(clause) /\ VarGT(Level(M, node), Level(M, clause))
    THEN SkipClause(M, node, Low(M, clause))
    ELSE clause

RECURSIVE equantStep(_, _, _)

\* equant: the result is stored in the cache
equantStore(key, rn) ==
    [M |-> CachePut(rn.M, key, rn.n, tautologyId, <<>>), n |-> rn.n]

\* equant taking the high child's result for a quantified variable
equantNodeHigh(key, level, quant, rh, rl) ==
    equantStore(key, IF quant THEN [M |-> rl.M, n |-> rh.n]
                     ELSE findOrMake(rl.M, level, rh.n, rl.n))

\* equant: applyOr for a quantified variable, findOrMake for another
equantNode(key, level, quant, rh, rl) ==
    equantStore(key, IF quant THEN applyOr(rl.M, rh.n, rl.n)
                     ELSE findOrMake(rl.M, level, rh.n, rl.n))

\* equant: the recursion on the low child
equantLow(M, key, node, clause, rh) ==
    equantNode(key, Level(M, node), Level(M, node) = Level(M, clause), rh,
               equantStep(rh.M, Low(M, node), clause))

\* equant: below the while loop
equantAt(M, node, clause) ==
    IF IsLeaf(clause) THEN [M |-> M, n |-> node]
    ELSE IF CacheHas(M, <<"equant", node, clause>>)
         THEN [M |-> M, n |-> CacheGet(M, <<"equant", node, clause>>).res]
         ELSE equantLow(M, <<"equant", node, clause>>, node, clause,
                        equantStep(M, High(M, node), clause))

\* Manager.equant with topLevel = False: [M, n]
equantStep(M, node, clause) ==
    IF IsLeaf(node) THEN [M |-> M, n |-> node]
    ELSE equantAt(M, node, SkipClause(M, node, clause))

\* Manager.equant with topLevel = True: [M, n]
equant(M, node, clause) ==
    equantStep([M EXCEPT !.qvars = @ \cup ClauseVars(M, clause)], node, clause)

---------------------------------------------------------------------------
(* Garbage collection *)

\* Manager.doMarking: the nonleaf nodes reachable from the frontier
RECURSIVE doMarking(_, _, _)
doMarking(M, frontier, markedSet) ==
    IF frontier = {} THEN markedSet
    ELSE doMarking(M,
            {c \in UNION {{High(M, n), Low(M, n)} : n \in frontier} :
                ~IsLeaf(c)} \ (frontier \cup markedSet),
            markedSet \cup frontier)

\* cleanCache: kill, for a cache entry
Killed(e, markedSet) ==
    \/ e.val.res \notin markedSet
    \/ \E i \in 2..Len(e.key) : e.key[i] \notin markedSet

\* Manager.cleanCache: [M, clauseList]
cleanCache(M, markedSet) ==
    [M |-> [M EXCEPT !.cache = SelectSeq(@, LAMBDA e : ~Killed(e, markedSet)),
                     !.cacheRemoved = @ + Cardinality(
                         {i \in DOMAIN M.cache : Killed(M.cache[i], markedSet)})],
     clauseList |-> ConcatAll([i \in DOMAIN M.cache |->
                        IF Killed(M.cache[i], markedSet)
                        THEN M.cache[i].val.clauses ELSE <<>>])]

\* The first entry of the cache whose value is no tuple
FirstNode(M) ==
    CHOOSE i \in DOMAIN M.cache :
        /\ ~IsTuple(M.cache[i].val)
        /\ \A j \in 1..(i - 1) : IsTuple(M.cache[j].val)

\* Manager.cleanCache reaching an entry whose value is no tuple:
\* self.operationCache[k][0] raises TypeError, the entries in front of it
\* are cleaned
cleanCacheRaising(M, markedSet) ==
    [M EXCEPT !.cache = SelectSeq(SubSeq(@, 1, FirstNode(M) - 1),
                                  LAMBDA e : ~Killed(e, markedSet))
                        \o SubSeq(@, FirstNode(M), Len(@)),
              !.cacheRemoved = @ + Cardinality(
                  {i \in 1..(FirstNode(M) - 1) : Killed(M.cache[i], markedSet)})]

\* cleanNodes: the clauses of a node that are not the tautology sentinel
NodeClauses(node) ==
    SelectSeq(<<node.inferTrueUp, node.inferFalseUp,
                node.inferTrueDown, node.inferFalseDown>>,
              LAMBDA c : Abs(c) # tautologyId)

\* cleanNodes counting one removal for the whole walk
cleanNodesOnce(M, markedSet) ==
    [M |-> [M EXCEPT !.table = @ \cap markedSet,
                     !.nodesRemoved = @ + 1],
     clauseList |-> ConcatAll([i \in 1..Cardinality(M.table \ markedSet) |->
                        NodeClauses(M.nodes[SortedSeq(M.table \ markedSet)[i]])])]

\* Manager.cleanNodes: [M, clauseList]; the table is walked in the order
\* the nodes were inserted
cleanNodes(M, markedSet) ==
    [M |-> [M EXCEPT !.table = @ \cap markedSet,
                     !.nodesRemoved = @ + Cardinality(M.table \ markedSet)],
     clauseList |-> ConcatAll([i \in 1..Cardinality(M.table \ markedSet) |->
                        NodeClauses(M.nodes[SortedSeq(M.table \ markedSet)[i]])])]

\* collectGarbage: the end, [M, clauseList, collected, roots, marked, removed]
collectDone(table, roots, markedSet, c, n) ==
    [M |-> [n.M EXCEPT !.lastGC = Cardinality(n.M.qvars),
                       !.gcCount = @ + 1],
     clauseList |-> c.clauseList \o n.clauseList,
     collected |-> TRUE,
     roots |-> roots,
     marked |-> markedSet,
     removed |-> table \ markedSet]

collectNodes(table, roots, markedSet, c) ==
    collectDone(table, roots, markedSet, c, cleanNodes(c.M, markedSet))

collectMarked(M, roots, markedSet) ==
    collectNodes(M.table, roots, markedSet, cleanCache(M, markedSet))

\* Manager.collectGarbage, rootList holding the roots the root generator
\* gives
collectGarbage(M, rootList) ==
    collectMarked(M, {r \in Range(rootList) : ~IsLeaf(r)},
                  doMarking(M, {r \in Range(rootList) : ~IsLeaf(r)}, {}))

\* checkGC collecting already at the threshold
checkGCAtThreshold(M, rootList) ==
    IF Cardinality(M.qvars) - M.lastGC >= gcThreshold
    THEN collectGarbage(M, rootList)
    ELSE [M |-> M, clauseList |-> <<>>, collected |-> FALSE, roots |-> {},
          marked |-> {}, removed |-> {}]

\* Manager.checkGC: [M, clauseList, collected, roots, marked, removed]
checkGC(M, rootList) ==
    IF Cardinality(M.qvars) - M.lastGC > gcThreshold
    THEN collectGarbage(M, rootList)
    ELSE [M |-> M, clauseList |-> <<>>, collected |-> FALSE, roots |-> {},
          marked |-> {}, removed |-> {}]

---------------------------------------------------------------------------
(* Terms *)

Term(root, validation) == [root |-> root, validation |-> validation]

combineDone(root, v) == [M |-> v.M, term |-> Term(root, v.id)]

\* Term.combine looking at the other operand first
combineValidateOther(self, other, r) ==
    combineDone(r.n,
        IF r.just = tautologyId /\ r.n = other.root
            THEN [M |-> r.M, id |-> other.validation]
        ELSE IF r.just = tautologyId /\ r.n = self.root
            THEN [M |-> r.M, id |-> self.validation]
        ELSE createClause(r.M, <<r.n>>,
                 <<self.validation, other.validation>>
                 \o (IF r.just # tautologyId THEN <<r.just>> ELSE <<>>),
                 TRUE, FALSE))

\* Term.combine: the validation of an operand is reused when the result is
\* that operand and needs no justification
combineValidate(self, other, r) ==
    combineDone(r.n,
        IF r.just = tautologyId /\ r.n = self.root
            THEN [M |-> r.M, id |-> self.validation]
        ELSE IF r.just = tautologyId /\ r.n = other.root
            THEN [M |-> r.M, id |-> other.validation]
        ELSE createClause(r.M, <<r.n>>,
                 <<self.validation, other.validation>>
                 \o (IF r.just # tautologyId THEN <<r.just>> ELSE <<>>),
                 TRUE, FALSE))

\* Term.combine: [M, term]
combine(M, self, other) ==
    combineValidate(self, other, applyAndJustify(M, self.root, other.root))

quantifyDone(root, v) == [M |-> v.M, term |-> Term(root, v.id), ok |-> TRUE]

\* Term.quantify taking the justification of the implication for the
\* validation of the new term
quantifyValidateJust(self, newRoot, i) ==
    IF ~i.check THEN [M |-> i.M, term |-> self, ok |-> FALSE]
    ELSE quantifyDone(newRoot, [M |-> i.M, id |-> i.just])

\* Term.quantify: the implication test and the validation
quantifyValidate(self, newRoot, i) ==
    IF ~i.check THEN [M |-> i.M, term |-> self, ok |-> FALSE]
    ELSE quantifyDone(newRoot,
            createClause(i.M, <<newRoot>>,
                <<self.validation>>
                \o (IF i.just # tautologyId THEN <<i.just>> ELSE <<>>),
                TRUE, FALSE))

\* Term.quantify testing the implication from the new root to the old one
quantifyImplySwapped(self, q) ==
    quantifyValidate(self, q.n, justifyImply(q.M, q.n, self.root))

\* Term.quantify: the implication from the root to the equant result
quantifyImply(self, q) ==
    quantifyValidate(self, q.n, justifyImply(q.M, self.root, q.n))

\* Term.quantify: [M, term, ok]; ok is false when BddException is raised
quantify(M, self, literals) ==
    quantifyImply(self, equant(M, self.root, literals))

\* Term.equalityTest
equalityTest(self, other) == self.root = other.root

---------------------------------------------------------------------------
(* Solver *)

\* Solver.__init__: the input clauses are written
RECURSIVE InputClauses(_, _)
InputClauses(M, clauses) ==
    IF clauses = <<>> THEN M
    ELSE InputClauses(createClause(M, Head(clauses), <<>>, TRUE, TRUE).M,
                      Tail(clauses))

\* Solver.__init__: both literals of a variable enter litMap
LitBoth(inputId, lm, t, e) ==
    [M |-> e.M, litMap |-> DictPut(DictPut(lm, inputId, t.n), -inputId, e.n)]

LitFalse(inputId, level, lm, t) ==
    LitBoth(inputId, lm, t, literal(t.M, level, 0))

\* Solver.__init__: the loop over the levels, [M, litMap]
RECURSIVE MakeLiterals(_, _)
MakeLiterals(acc, level) ==
    IF level > Len(acc.M.varId) THEN acc
    ELSE MakeLiterals(LitFalse(acc.M.varId[level], level, acc.litMap,
                               literal(acc.M, level, 1)),
                      level + 1)

TermAdd(acc, c) ==
    [M |-> c.M,
     activeIds |-> DictPut(acc.activeIds, acc.termCount + 1,
                           Term(c.root, c.validation)),
     termCount |-> acc.termCount + 1]

\* Solver.__init__: the loop over the clauses, [M, activeIds, termCount]
RECURSIVE MakeTerms(_, _, _)
MakeTerms(acc, lm, clauses) ==
    IF clauses = <<>> THEN acc
    ELSE MakeTerms(TermAdd(acc,
                      constructClause(acc.M, acc.termCount + 1,
                          [i \in DOMAIN Head(clauses) |-> lm[Head(clauses)[i]]])),
                   lm, Tail(clauses))

SolverMade(lm, t) ==
    [M |-> t.M, litMap |-> lm, activeIds |-> t.activeIds,
     termCount |-> t.termCount]

SolverTerms(clauses, l) ==
    SolverMade(l.litMap,
               MakeTerms([M |-> l.M, activeIds |-> <<>>, termCount |-> 0],
                         l.litMap, clauses))

\* Solver.__init__: [M, litMap, activeIds, termCount]
NewSolver(clauses, varId, doLrat) ==
    SolverTerms(clauses,
        MakeLiterals([M |-> InputClauses(NewManager(varId, doLrat), clauses),
                      litMap |-> <<>>], 1))

\* rootGenerator giving the roots of the active terms only
rootGeneratorActive(active, stored) ==
    [i \in 1..Cardinality(DOMAIN active) |-> active[SortedSeq(DOMAIN active)[i]].root]

\* Solver.rootGenerator
rootGenerator(active, stored) ==
    [i \in 1..Cardinality(DOMAIN active) |-> active[SortedSeq(DOMAIN active)[i]].root]
    \o [i \in 1..Cardinality(DOMAIN stored) |-> stored[SortedSeq(DOMAIN stored)[i]].root]

\* combineTerms not noticing the zero leaf
combineTermsBlind(active, count, id1, id2, c) ==
    [M |-> c.M,
     activeIds |-> DictPut(DictRemove(active, {id1, id2}), count + 1, c.term),
     termCount |-> count + 1,
     unsat |-> FALSE,
     nid |-> count + 1]

combineTermsDone(active, count, id1, id2, c) ==
    [M |-> c.M,
     activeIds |-> DictPut(DictRemove(active, {id1, id2}), count + 1, c.term),
     termCount |-> count + 1,
     unsat |-> c.term.root = leaf0,
     nid |-> IF c.term.root = leaf0 THEN -1 ELSE count + 1]

\* Solver.combineTerms for two different active ids:
\* [M, activeIds, termCount, unsat, nid]
combineTerms(M, active, count, id1, id2) ==
    combineTermsDone(active, count, id1, id2,
                     combine(M, active[id1], active[id2]))

\* What a step records of the garbage collection in it: the roots given,
\* the nodes marked and removed, the deletion list, the ids in the clause
\* dictionary before the deletion and whether deleteClauses returned; with
\* them the roots of the terms that were active or stored and of the terms
\* in registers at the time
NoGC == [collected |-> FALSE, roots |-> {}, marked |-> {}, removed |-> {},
         clauseList |-> <<>>, dictBefore |-> {}, deleted |-> TRUE,
         held |-> {}, regRoots |-> {}]

quantifyDelete(active, stored, count, g, d) ==
    [M |-> d.M, activeIds |-> active, termCount |-> count, nid |-> count,
     ok |-> TRUE, deleted |-> d.ok,
     gc |-> [collected |-> g.collected, roots |-> g.roots, marked |-> g.marked,
             removed |-> g.removed, clauseList |-> g.clauseList,
             dictBefore |-> DOMAIN g.M.clauseDict, deleted |-> d.ok,
             held |-> {active[id].root : id \in DOMAIN active}
                      \cup {stored[id].root : id \in DOMAIN stored},
             regRoots |-> {}]]

\* quantifyTerm: the clauses garbage collection gives are deleted
quantifyGC(active, stored, count, g) ==
    quantifyDelete(active, stored, count, g,
                   IF Len(g.clauseList) > 0
                   THEN deleteClauses(g.M, g.clauseList)
                   ELSE [M |-> g.M, ok |-> TRUE])

\* quantifyTerm: the new term replaces the old one, then checkGC
quantifyNew(active, stored, count, id, q) ==
    IF ~q.ok
    THEN [M |-> q.M, activeIds |-> active, termCount |-> count, nid |-> 0,
          ok |-> FALSE, deleted |-> TRUE, gc |-> NoGC]
    ELSE quantifyGC(DictPut(DictRemove(active, {id}), count + 1, q.term),
                    stored, count + 1,
                    checkGC(q.M, rootGenerator(
                        DictPut(DictRemove(active, {id}), count + 1, q.term),
                        stored)))

quantifyBuilt(active, stored, count, id, b) ==
    quantifyNew(active, stored, count, id, quantify(b.M, active[id], b.n))

\* Solver.quantifyTerm for an active id:
\* [M, activeIds, termCount, nid, ok, deleted, gc]
quantifyTerm(M, lm, active, stored, count, id, varList) ==
    quantifyBuilt(active, stored, count, id,
                  buildClause(M, [i \in DOMAIN varList |-> lm[varList[i]]]))

---------------------------------------------------------------------------
(* Inputs *)

\* A clause as CnfReader accepts it: not empty, no variable twice; the
\* literals are listed by ascending variable
RECURSIVE ClauseOf(_)
ClauseOf(S) ==
    IF S = {} THEN <<>>
    ELSE LET m == CHOOSE x \in S : \A y \in S : Abs(x) <= Abs(y)
         IN <<m>> \o ClauseOf(S \ {m})

ClausePool(n) ==
    {ClauseOf(S) : S \in {T \in SUBSET ((1..n) \cup {-i : i \in 1..n}) :
                            T # {} /\ \A x \in T : -x \notin T}}

\* The CNF files with k clauses over the variables 1..n
CNFs(n, k) == [1..k -> ClausePool(n)]

Satisfies(a, clause) ==
    \E i \in DOMAIN clause :
        IF clause[i] > 0 THEN a[clause[i]] ELSE ~a[-clause[i]]

Satisfiable(clauses, n) ==
    \E a \in [1..n -> BOOLEAN] : \A i \in DOMAIN clauses : Satisfies(a, clauses[i])

\* The variable orders a Permuter can hold: level -> input id
Permuters(n) == {p \in [1..n -> 1..n] : \A i, j \in 1..n : p[i] = p[j] => i = j}

Identity(n) == [i \in 1..n |-> i]

\* The exceptions a run can end with
Exceptions == {"SolverException", "BddException", "KeyError", "IndexError"}

\* The state a Solver is constructed in
SolverInit(s, clauses, m) ==
    /\ mgr = s.M
    /\ litMap = s.litMap
    /\ activeIds = s.activeIds
    /\ storeTerms = <<>>
    /\ termCount = s.termCount
    /\ unsat = FALSE
    /\ idStack = <<>>
    /\ registerDict = <<>>
    /\ buckets = <<>>
    /\ blevel = 0
    /\ nid = 0
    /\ cnf = clauses
    /\ mode = m
    /\ pc = "start"
    /\ last = [op |-> "init", before |-> 0, gc |-> NoGC]

---------------------------------------------------------------------------
(* Solver.runNoSchedule *)

\* Solver.choosePair
choosePair(active) ==
    <<SortedSeq(DOMAIN active)[1], SortedSeq(DOMAIN active)[2]>>

SeqCombineTo(r) ==
    /\ mgr' = r.M
    /\ activeIds' = r.activeIds
    /\ termCount' = r.termCount
    /\ unsat' = r.unsat
    /\ nid' = r.nid
    /\ pc' = IF r.nid < 0 THEN "unsat" ELSE "run"
    /\ last' = [op |-> "combine", before |-> mgr.clauseCount, gc |-> NoGC]
    /\ UNCHANGED <<litMap, storeTerms, idStack, registerDict, buckets, blevel,
                   cnf, mode>>

\* One pass of the while loop
SeqCombine ==
    /\ mode = "seq"
    /\ pc \in {"start", "run"}
    /\ Cardinality(DOMAIN activeIds) > 1
    /\ SeqCombineTo(combineTerms(mgr, activeIds, termCount,
                                 choosePair(activeIds)[1],
                                 choosePair(activeIds)[2]))

\* The loop is left with one active term: SAT is written, and
\* self.activeIds[nid] is read to list solutions
SeqFinish ==
    /\ mode = "seq"
    /\ pc \in {"start", "run"}
    /\ Cardinality(DOMAIN activeIds) <= 1
    /\ pc' = IF nid \in DOMAIN activeIds THEN "sat" ELSE "KeyError"
    /\ last' = [op |-> "finish", before |-> mgr.clauseCount, gc |-> NoGC]
    /\ UNCHANGED <<mgr, litMap, activeIds, storeTerms, termCount, unsat,
                   idStack, registerDict, buckets, blevel, nid, cnf, mode>>

InitSeq ==
    \E k \in 1..MaxClauses : \E clauses \in CNFs(MaxVar, k) :
        \E lrat \in BOOLEAN :
            SolverInit(NewSolver(clauses, Identity(MaxVar), lrat), clauses, "seq")

NextSeq == SeqCombine \/ SeqFinish

SpecSeq == InitSeq /\ [][NextSeq]_vars

---------------------------------------------------------------------------
(* Solver.runBucketSchedule *)

\* placeInBucket choosing the bucket below the level of the root
placeInBucketBelow(M, b, active, id) ==
    [b EXCEPT ![IF Level(M, active[id].root) = leafLevel THEN 0
                ELSE Level(M, active[id].root) - 1] = Append(@, id)]

\* Solver.placeInBucket
placeInBucket(M, b, active, id) ==
    [b EXCEPT ![IF Level(M, active[id].root) = leafLevel THEN 0
                ELSE Level(M, active[id].root)] = Append(@, id)]

\* for id in ids: self.placeInBucket(buckets, id)
RECURSIVE PlaceAll(_, _, _, _)
PlaceAll(M, b, active, ids) ==
    IF ids = <<>> THEN b
    ELSE PlaceAll(M, placeInBucket(M, b, active, Head(ids)), active, Tail(ids))

\* The buckets are made and the active terms placed
BucketStart ==
    /\ mode = "bucket"
    /\ pc = "start"
    /\ buckets' = PlaceAll(mgr, [level \in 0..Len(mgr.varId) |-> <<>>],
                           activeIds, SortedSeq(DOMAIN activeIds))
    /\ blevel' = 0
    /\ pc' = "run"
    /\ last' = [op |-> "place", before |-> mgr.clauseCount, gc |-> NoGC]
    /\ UNCHANGED <<mgr, litMap, activeIds, storeTerms, termCount, unsat,
                   idStack, registerDict, nid, cnf, mode>>

BucketCombineTo(rest, r) ==
    /\ mgr' = r.M
    /\ activeIds' = r.activeIds
    /\ termCount' = r.termCount
    /\ unsat' = r.unsat
    /\ nid' = r.nid
    /\ buckets' = IF r.nid < 0 THEN rest
                  ELSE placeInBucket(r.M, rest, r.activeIds, r.nid)
    /\ pc' = IF r.nid < 0 THEN "unsat" ELSE "run"
    /\ last' = [op |-> "combine", before |-> mgr.clauseCount, gc |-> NoGC]
    /\ UNCHANGED <<litMap, storeTerms, idStack, registerDict, blevel, cnf, mode>>

\* One pass of the while loop over the bucket of blevel
BucketCombine ==
    /\ mode = "bucket"
    /\ pc = "run"
    /\ blevel <= Len(mgr.varId)
    /\ Len(buckets[blevel]) > 1
    /\ BucketCombineTo(
          [buckets EXCEPT ![blevel] = SubSeq(@, 3, Len(@))],
          combineTerms(mgr, activeIds, termCount,
                       buckets[blevel][1], buckets[blevel][2]))

BucketQuantifyTo(rest, q) ==
    /\ mgr' = q.M
    /\ activeIds' = q.activeIds
    /\ termCount' = q.termCount
    /\ nid' = q.nid
    /\ buckets' = IF q.ok /\ q.deleted
                  THEN placeInBucket(q.M, rest, q.activeIds, q.nid)
                  ELSE rest
    /\ blevel' = blevel + 1
    /\ pc' = IF ~q.ok THEN "BddException"
             ELSE IF ~q.deleted THEN "KeyError" ELSE "run"
    /\ last' = [op |-> "quantify", before |-> mgr.clauseCount, gc |-> q.gc]
    /\ UNCHANGED <<litMap, storeTerms, unsat, idStack, registerDict, cnf, mode>>

\* The top variable of the bucket's one term is quantified
BucketQuantify ==
    /\ mode = "bucket"
    /\ pc = "run"
    /\ blevel \in 1..Len(mgr.varId)
    /\ Len(buckets[blevel]) = 1
    /\ BucketQuantifyTo(
          [buckets EXCEPT ![blevel] = <<>>],
          quantifyTerm(mgr, litMap, activeIds, storeTerms, termCount,
                       buckets[blevel][1], <<mgr.varId[blevel]>>))

\* Nothing to quantify at this level
BucketSkip ==
    /\ mode = "bucket"
    /\ pc = "run"
    /\ blevel <= Len(mgr.varId)
    /\ Len(buckets[blevel]) <= 1
    /\ blevel = 0 \/ Len(buckets[blevel]) = 0
    /\ blevel' = blevel + 1
    /\ last' = [op |-> "skip", before |-> mgr.clauseCount, gc |-> NoGC]
    /\ UNCHANGED <<mgr, litMap, activeIds, storeTerms, termCount, unsat,
                   idStack, registerDict, buckets, nid, cnf, mode, pc>>

\* The loop over the levels is done: SAT is written
BucketFinish ==
    /\ mode = "bucket"
    /\ pc = "run"
    /\ blevel > Len(mgr.varId)
    /\ pc' = "sat"
    /\ last' = [op |-> "finish", before |-> mgr.clauseCount, gc |-> NoGC]
    /\ UNCHANGED <<mgr, litMap, activeIds, storeTerms, termCount, unsat,
                   idStack, registerDict, buckets, blevel, nid, cnf, mode>>

InitBucket ==
    \E k \in 1..MaxClauses : \E clauses \in CNFs(MaxVar, k) :
        \E p \in Permuters(MaxVar) : \E lrat \in BOOLEAN :
            SolverInit(NewSolver(clauses, p, lrat), clauses, "bucket")

NextBucket ==
    \/ BucketStart
    \/ BucketCombine
    \/ BucketQuantify
    \/ BucketSkip
    \/ BucketFinish

SpecBucket == InitBucket /\ [][NextBucket]_vars

---------------------------------------------------------------------------
(* Solver.runSchedule.  The scheduler's lines are chosen one at a time.   *)
(* The CNF header declares NumVars variables, of which the clauses use    *)
(* the first MaxVar; the others come in groups large enough for one       *)
(* quantification over a group to trigger garbage collection.  The solver *)
(* runs with verbLevel 0, where an information request writes nothing.    *)
(* The proof is written in LRAT format, the one with deletion records.    *)
(* A c command puts on the stack the id of one clause that is active and  *)
(* not on the stack, and an s command names a register not in use.        *)

\* Groups of variables that no clause uses
PadGroups == 1
\* Ids the stack holds at most
MaxStack == 2
\* Terms the commands of a schedule make at most
MaxNewTerms == 2

NumVars == MaxVar + PadGroups * (gcThreshold + 1)

Pad(g) == [i \in 1..(gcThreshold + 1) |-> MaxVar + (g - 1) * (gcThreshold + 1) + i]

\* The variable lists of the q commands
QLists ==
    {<<v>> : v \in 1..MaxVar}
    \cup {<<v>> \o Pad(g) : v \in 1..MaxVar, g \in 1..PadGroups}

Registers == {"X", "Y"}

Top(stack) == stack[Len(stack)]
Pop(stack, n) == SubSeq(stack, 1, Len(stack) - n)

\* The scheduler has a line left: a schedule ends with the command that
\* makes the last of its terms
Reading ==
    /\ mode = "sched"
    /\ pc \in {"start", "run"}
    /\ termCount < Len(cnf) + MaxNewTerms

\* A command that changes only the stack or ends the run with an exception
SchedStack(stack, outcome) ==
    /\ idStack' = stack
    /\ pc' = outcome
    /\ UNCHANGED <<mgr, litMap, activeIds, storeTerms, termCount, unsat,
                   registerDict, buckets, blevel, nid, cnf, mode, last>>

\* i: the term on top of the stack is looked up
CmdI ==
    /\ Reading
    /\ SchedStack(idStack,
                  IF Len(idStack) = 0 THEN "SolverException"
                  ELSE IF Top(idStack) \notin DOMAIN activeIds THEN "KeyError"
                  ELSE "run")

\* c <id>: the id of a clause is put on the stack
CmdC ==
    /\ Reading
    /\ Len(idStack) < MaxStack
    /\ \E id \in (1..Len(cnf)) \cap DOMAIN activeIds :
          /\ id \notin Range(idStack)
          /\ SchedStack(Append(idStack, id), "run")

\* e: the two terms on top of the stack are compared and popped
CmdE ==
    /\ Reading
    /\ IF Len(idStack) < 2
       THEN SchedStack(idStack, "SolverException")
       ELSE IF {Top(idStack), idStack[Len(idStack) - 1]} \subseteq DOMAIN activeIds
            THEN SchedStack(Pop(idStack, 2), "run")
            ELSE SchedStack(idStack, "KeyError")

\* s <name>: the top of the stack is copied into the register and stored
CmdS ==
    /\ Reading
    /\ \E name \in Registers \ DOMAIN registerDict :
        IF Len(idStack) = 0 THEN SchedStack(idStack, "IndexError")
        ELSE IF Top(idStack) \notin DOMAIN activeIds
             THEN SchedStack(idStack, "KeyError")
        ELSE /\ registerDict' = DictPut(registerDict, name,
                    [id |-> Top(idStack), term |-> activeIds[Top(idStack)]])
             /\ storeTerms' = DictPut(storeTerms, Top(idStack),
                                      activeIds[Top(idStack)])
             /\ pc' = "run"
             /\ UNCHANGED <<mgr, litMap, activeIds, termCount, unsat, idStack,
                            buckets, blevel, nid, cnf, mode, last>>

\* r <name>: the register's id is pushed and its term made active again
CmdR ==
    /\ Reading
    /\ Len(idStack) < MaxStack
    /\ \E name \in Registers :
        IF name \notin DOMAIN registerDict
        THEN SchedStack(idStack, "SolverException")
        ELSE /\ idStack' = Append(idStack, registerDict[name].id)
             /\ activeIds' = DictPut(activeIds, registerDict[name].id,
                                     registerDict[name].term)
             /\ pc' = "run"
             /\ UNCHANGED <<mgr, litMap, storeTerms, termCount, unsat,
                            registerDict, buckets, blevel, nid, cnf, mode, last>>

\* d <name>: the register is deleted and its id unstored
CmdD ==
    /\ Reading
    /\ \E name \in Registers :
        IF name \notin DOMAIN registerDict
        THEN SchedStack(idStack, "SolverException")
        ELSE /\ registerDict' = DictRemove(registerDict, {name})
             /\ storeTerms' = DictRemove(storeTerms, {registerDict[name].id})
             /\ pc' = IF registerDict[name].id \in DOMAIN storeTerms
                      THEN "run" ELSE "KeyError"
             /\ UNCHANGED <<mgr, litMap, activeIds, termCount, unsat, idStack,
                            buckets, blevel, nid, cnf, mode, last>>

\* The loop of a <count> taking one id from the stack in a pass
ConjStepOne(st, r) ==
    [M |-> r.M, activeIds |-> r.activeIds, termCount |-> r.termCount,
     unsat |-> r.unsat, nid |-> r.nid,
     idStack |-> IF r.nid < 0 THEN Pop(st.idStack, 1)
                 ELSE Append(Pop(st.idStack, 1), r.nid),
     pc |-> IF r.nid < 0 THEN "unsat" ELSE "run"]

\* a <count>: one pass of the loop, a combineTerms that returned
ConjStep(st, r) ==
    [M |-> r.M, activeIds |-> r.activeIds, termCount |-> r.termCount,
     unsat |-> r.unsat, nid |-> r.nid,
     idStack |-> IF r.nid < 0 THEN Pop(st.idStack, 2)
                 ELSE Append(Pop(st.idStack, 2), r.nid),
     pc |-> IF r.nid < 0 THEN "unsat" ELSE "run"]

\* a <count>: the loop.  combineTerms raises KeyError for an id that is
\* not active, and for the same id twice when it deletes it a second time
RECURSIVE ConjLoop(_, _)
ConjLoop(st, i) ==
    IF i <= 0 \/ st.pc # "run" THEN st
    ELSE ConjLoop(
            IF ~({Top(st.idStack), st.idStack[Len(st.idStack) - 1]}
                    \subseteq DOMAIN st.activeIds)
            THEN [st EXCEPT !.idStack = Pop(@, 2), !.pc = "KeyError"]
            ELSE IF Top(st.idStack) = st.idStack[Len(st.idStack) - 1]
            THEN [st EXCEPT !.idStack = Pop(@, 2), !.pc = "KeyError",
                            !.termCount = @ + 1,
                            !.activeIds = DictRemove(@, {Top(st.idStack)})]
            ELSE ConjStep(st, combineTerms(st.M, st.activeIds, st.termCount,
                                           Top(st.idStack),
                                           st.idStack[Len(st.idStack) - 1])),
            i - 1)

SchedTo(cmd, st, gc) ==
    /\ mgr' = st.M
    /\ activeIds' = st.activeIds
    /\ termCount' = st.termCount
    /\ unsat' = st.unsat
    /\ nid' = st.nid
    /\ idStack' = st.idStack
    /\ pc' = st.pc
    /\ last' = [op |-> cmd, before |-> mgr.clauseCount, gc |-> gc]
    /\ UNCHANGED <<litMap, storeTerms, registerDict, buckets, blevel, cnf, mode>>

\* a <count>: the count + 1 terms on top of the stack are conjoined
CmdA ==
    /\ Reading
    /\ \E count \in 1..(MaxStack - 1) :
        /\ termCount + count <= Len(cnf) + MaxNewTerms
        /\ IF count + 1 > Len(idStack)
           THEN SchedStack(idStack, "SolverException")
           ELSE SchedTo("a",
                    ConjLoop([M |-> mgr, activeIds |-> activeIds,
                              termCount |-> termCount, unsat |-> unsat,
                              nid |-> nid, idStack |-> idStack, pc |-> "run"],
                             count),
                    NoGC)

QuantTo(q) ==
    SchedTo("q",
            [M |-> q.M, activeIds |-> q.activeIds, termCount |-> q.termCount,
             unsat |-> unsat, nid |-> q.nid,
             idStack |-> IF q.ok /\ q.deleted
                         THEN Append(Pop(idStack, 1), q.nid)
                         ELSE Pop(idStack, 1),
             pc |-> IF ~q.ok THEN "BddException"
                    ELSE IF ~q.deleted THEN "KeyError" ELSE "run"],
            [q.gc EXCEPT !.regRoots = {registerDict[name].term.root :
                                          name \in DOMAIN registerDict}])

\* q <variables>: the term on top of the stack is quantified
CmdQ ==
    /\ Reading
    /\ \E varList \in QLists :
        IF Len(idStack) < 1 THEN SchedStack(idStack, "SolverException")
        ELSE IF Top(idStack) \notin DOMAIN activeIds
             THEN SchedStack(Pop(idStack, 1), "KeyError")
        ELSE QuantTo(quantifyTerm(mgr, litMap, activeIds, storeTerms,
                                  termCount, Top(idStack), varList))

\* A line whose first field is none of i, s, r, d, e, c, a, q and whose other
\* fields are integers
CmdUnknown ==
    /\ Reading
    /\ SchedStack(idStack, "SolverException")

\* A line of a c, a or q command, or of an unknown one, with a field after
\* the first that int() does not accept
CmdBadInt ==
    /\ Reading
    /\ SchedStack(idStack, "SolverException")

\* Clauses in the CNF of a scheduled run
SchedClauses == 1

Init ==
    \E clauses \in CNFs(MaxVar, SchedClauses) :
        SolverInit(NewSolver(clauses, Identity(NumVars), TRUE), clauses, "sched")

Next ==
    \/ CmdI
    \/ CmdC
    \/ CmdE
    \/ CmdS
    \/ CmdR
    \/ CmdD
    \/ CmdA
    \/ CmdQ
    \/ CmdUnknown
    \/ CmdBadInt

Spec == Init /\ [][Next]_vars

---------------------------------------------------------------------------
(* Schedules of c and a commands                                          *)
(*                                                                         *)
(* The CNF has MaxClauses clauses.  A c command puts on the stack the id   *)
(* of a clause that is active and not on the stack; an a command has any   *)
(* count from -1 to MaxConjStack - 1.  A step records the count and the    *)
(* stack and the active terms it found.                                    *)

\* Ids the stack holds at most
MaxConjStack == 3

ConjReading == mode = "conj" /\ pc \in {"start", "run"}

\* c <id>
ConjC ==
    /\ ConjReading
    /\ Len(idStack) < MaxConjStack
    /\ \E id \in (1..Len(cnf)) \cap DOMAIN activeIds :
          /\ id \notin Range(idStack)
          /\ idStack' = Append(idStack, id)
          /\ pc' = "run"
          /\ last' = [op |-> "c", count |-> 0, stack |-> idStack,
                      active |-> activeIds]
          /\ UNCHANGED <<mgr, litMap, activeIds, storeTerms, termCount, unsat,
                         registerDict, buckets, blevel, nid, cnf, mode>>

ConjTo(count, st) ==
    /\ mgr' = st.M
    /\ activeIds' = st.activeIds
    /\ termCount' = st.termCount
    /\ unsat' = st.unsat
    /\ nid' = st.nid
    /\ idStack' = st.idStack
    /\ pc' = st.pc
    /\ last' = [op |-> "a", count |-> count, stack |-> idStack,
                active |-> activeIds]
    /\ UNCHANGED <<litMap, storeTerms, registerDict, buckets, blevel, cnf, mode>>

\* a <count>
ConjA ==
    /\ ConjReading
    /\ \E count \in (-1)..(MaxConjStack - 1) :
        ConjTo(count,
               IF count + 1 > Len(idStack)
               THEN [M |-> mgr, activeIds |-> activeIds,
                     termCount |-> termCount, unsat |-> unsat, nid |-> nid,
                     idStack |-> idStack, pc |-> "SolverException"]
               ELSE ConjLoop([M |-> mgr, activeIds |-> activeIds,
                              termCount |-> termCount, unsat |-> unsat,
                              nid |-> nid, idStack |-> idStack, pc |-> "run"],
                             count))

InitConj ==
    \E clauses \in CNFs(MaxVar, MaxClauses) : \E lrat \in BOOLEAN :
        SolverInit(NewSolver(clauses, Identity(MaxVar), lrat), clauses, "conj")

NextConj == ConjC \/ ConjA

SpecConj == InitConj /\ [][NextConj]_vars

---------------------------------------------------------------------------
(* A client of the Prover: clauses are created and deleted *)

\* Clauses a client of the Prover creates at most
MaxIds == 3
\* Comment lines a client of the Prover has written at most
MaxComments == 1

\* The literal lists asked for: up to two literals, the leaves' ids among
\* them
ResultLists ==
    {<<>>}
    \cup {<<x>> : x \in {1, -1, tautologyId, -tautologyId}}
    \cup {<<x, y>> : x, y \in {1, -1, tautologyId, -tautologyId}}

\* The state before any clause exists
ProverInit(lrat, verbLevel) ==
    /\ mgr = [NewManager(<<>>, lrat) EXCEPT !.verbLevel = verbLevel]
    /\ litMap = <<>>
    /\ activeIds = <<>>
    /\ storeTerms = <<>>
    /\ termCount = 0
    /\ unsat = FALSE
    /\ idStack = <<>>
    /\ registerDict = <<>>
    /\ buckets = <<>>
    /\ blevel = 0
    /\ nid = 0
    /\ cnf = <<>>
    /\ mode = "prover"
    /\ pc = "run"
    /\ last = [op |-> "init", id |-> 0, taut |-> FALSE, given |-> FALSE,
               prev |-> NewManager(<<>>, lrat)]

ProverTo(op, taut, given, r, outcome) ==
    /\ mgr' = r.M
    /\ pc' = outcome
    /\ last' = [op |-> op, id |-> r.id, taut |-> taut, given |-> given,
                prev |-> mgr]
    /\ UNCHANGED <<litMap, activeIds, storeTerms, termCount, unsat, idStack,
                   registerDict, buckets, blevel, nid, cnf, mode>>

\* createClause(result, antecedent, comment, isInput)
ProverCreate ==
    /\ mode = "prover" /\ pc = "run"
    /\ mgr.clauseCount < MaxIds
    /\ mgr.comments < MaxComments
    /\ \E result \in ResultLists : \E given \in BOOLEAN :
       \E antecedent \in {<<>>} \cup {<<a>> : a \in DOMAIN mgr.clauseDict}
                         \cup {<<a, b>> : a, b \in DOMAIN mgr.clauseDict} :
          ProverTo("createClause", cleanClause(result).taut, given,
                   createClause(mgr, result, antecedent, given,
                                antecedent = <<>>),
                   "run")

ProverDeleteTo(d) ==
    ProverTo("deleteClauses", FALSE, FALSE, [M |-> d.M, id |-> 0],
             IF d.ok THEN "run" ELSE "KeyError")

\* deleteClauses(clauseList)
ProverDelete ==
    /\ mode = "prover" /\ pc = "run"
    /\ \E clauseList \in {<<a>> : a \in 1..mgr.clauseCount}
                         \cup {<<a, b>> : a, b \in 1..mgr.clauseCount} :
          ProverDeleteTo(deleteClauses(mgr, clauseList))

InitProver == \E lrat \in BOOLEAN : \E verbLevel \in 1..2 : ProverInit(lrat, verbLevel)

NextProver == ProverCreate \/ ProverDelete

SpecProver == InitProver /\ [][NextProver]_vars

---------------------------------------------------------------------------
(* Two Provers given the same calls: mgr writes a tracecheck proof, and    *)
(* last.lrat an LRAT proof.  A step records the antecedents the caller     *)
(* supplied and the ids returned.                                          *)

\* The antecedent lists a caller supplies: ids of clauses in the dictionary
AntLists(M) ==
    {<<>>} \cup {<<a>> : a \in DOMAIN M.clauseDict}
    \cup {<<a, b>> : a, b \in DOMAIN M.clauseDict}

ModesInit ==
    /\ mgr = [NewManager(<<>>, FALSE) EXCEPT !.verbLevel = 1]
    /\ litMap = <<>>
    /\ activeIds = <<>>
    /\ storeTerms = <<>>
    /\ termCount = 0
    /\ unsat = FALSE
    /\ idStack = <<>>
    /\ registerDict = <<>>
    /\ buckets = <<>>
    /\ blevel = 0
    /\ nid = 0
    /\ cnf = <<>>
    /\ mode = "modes"
    /\ pc = "run"
    /\ last = [op |-> "init", ants |-> <<>>, id |-> 0, lratId |-> 0,
               lrat |-> [NewManager(<<>>, TRUE) EXCEPT !.verbLevel = 1]]

ModesTo(op, ants, t, l, outcome) ==
    /\ mgr' = t.M
    /\ pc' = outcome
    /\ last' = [op |-> op, ants |-> ants, id |-> t.id, lratId |-> l.id,
                lrat |-> l.M]
    /\ UNCHANGED <<litMap, activeIds, storeTerms, termCount, unsat, idStack,
                   registerDict, buckets, blevel, nid, cnf, mode>>

\* createClause(result, antecedent, comment, isInput) on both
ModesCreate ==
    /\ mode = "modes" /\ pc = "run"
    /\ mgr.clauseCount < MaxIds
    /\ \E result \in ResultLists : \E isInput \in BOOLEAN :
       \E antecedent \in AntLists(mgr) :
          ModesTo("createClause", antecedent,
                  createClause(mgr, result, antecedent, FALSE, isInput),
                  createClause(last.lrat, result, antecedent, FALSE, isInput),
                  "run")

\* Deletion records an LRAT proof holds at most
MaxDeletes == 2

\* The lists of ids a caller asks to delete
DeleteLists(M) ==
    {<<>>} \cup {<<a>> : a \in 1..M.clauseCount}
    \cup {<<a, b>> : a, b \in 1..M.clauseCount}

ModesDeleteTo(clauseList, t, l) ==
    ModesTo("deleteClauses", clauseList, [M |-> t.M, id |-> 0],
            [M |-> l.M, id |-> 0], IF t.ok /\ l.ok THEN "run" ELSE "KeyError")

\* deleteClauses(clauseList) on both
ModesDelete ==
    /\ mode = "modes" /\ pc = "run"
    /\ Len(last.lrat.deletions) < MaxDeletes
    /\ \E clauseList \in DeleteLists(mgr) :
          ModesDeleteTo(clauseList, deleteClauses(mgr, clauseList),
                        deleteClauses(last.lrat, clauseList))

NextModes == ModesCreate \/ ModesDelete

SpecModes == ModesInit /\ [][NextModes]_vars

---------------------------------------------------------------------------
(* A client of the Manager: nodes are made, combined, quantified and      *)
(* collected.  The client holds every node it was given and the nodes     *)
(* below them, also after a collection took them from the unique table.   *)

\* Nodes made after which a client asks for no operation that makes nodes
MaxNodes == 2
\* Collections a client asks for at most
MaxCollect == 1

Handles(M) == DOMAIN M.nodes \cup {leaf0, leaf1}

ManagerInit(lrat) ==
    /\ mgr = NewManager(Identity(MaxVar), lrat)
    /\ litMap = <<>>
    /\ activeIds = <<>>
    /\ storeTerms = <<>>
    /\ termCount = 0
    /\ unsat = FALSE
    /\ idStack = <<>>
    /\ registerDict = <<>>
    /\ buckets = <<>>
    /\ blevel = 0
    /\ nid = 0
    /\ cnf = <<>>
    /\ mode = "mgr"
    /\ pc = "run"
    /\ last = [op |-> "init", n |-> leaf0, hit |-> {},
               clauseCount |-> 0, nextNodeId |-> MaxVar + 1, table |-> {}]

ManagerTo(op, hit, r, outcome) ==
    /\ mgr' = r.M
    /\ pc' = outcome
    /\ last' = [op |-> op, n |-> r.n, hit |-> hit,
                clauseCount |-> mgr.clauseCount, nextNodeId |-> mgr.nextNodeId,
                table |-> mgr.table]
    /\ UNCHANGED <<litMap, activeIds, storeTerms, termCount, unsat, idStack,
                   registerDict, buckets, blevel, nid, cnf, mode>>

\* The client may go on making nodes
Making ==
    /\ mode = "mgr" /\ pc = "run"
    /\ mgr.nextNodeId <= MaxVar + MaxNodes

\* findOrMake(variable, high, low) with two different children below the
\* variable
MgrFindOrMake ==
    /\ mode = "mgr" /\ pc = "run"
    /\ \E level \in 1..MaxVar : \E high, low \in Handles(mgr) :
        /\ Making \/ TableAt(mgr, level, high, low) # {}
        /\ high # low
        /\ VarLT(level, Level(mgr, high)) /\ VarLT(level, Level(mgr, low))
        /\ ManagerTo("findOrMake", TableAt(mgr, level, high, low),
                     findOrMake(mgr, level, high, low), "run")

\* applyOr(nodeA, nodeB)
MgrOr ==
    /\ Making
    /\ \E nodeA, nodeB \in Handles(mgr) :
        ManagerTo("applyOr", {}, applyOr(mgr, nodeA, nodeB), "run")

\* applyAndJustify(nodeA, nodeB)
MgrAndJustify ==
    /\ Making
    /\ \E nodeA, nodeB \in Handles(mgr) :
        ManagerTo("applyAndJustify", {}, applyAndJustify(mgr, nodeA, nodeB), "run")

\* A clause of positive literals, as buildClause makes it from literal
\* nodes of phase 1
RECURSIVE IsVarClause(_, _)
IsVarClause(M, c) ==
    \/ c = leaf0
    \/ /\ ~IsLeaf(c)
       /\ High(M, c) = leaf1
       /\ IsVarClause(M, Low(M, c))

\* equant(node, clause)
MgrEquant ==
    /\ Making
    /\ \E node, clause \in Handles(mgr) :
        /\ ~IsLeaf(clause)
        /\ IsVarClause(mgr, clause)
        /\ ManagerTo("equant", {}, equant(mgr, node, clause), "run")

MgrCollectTo(d) ==
    ManagerTo("collectGarbage", {}, [M |-> d.M, n |-> leaf0],
              IF d.ok THEN "run" ELSE "KeyError")

MgrCollectDelete(g) ==
    MgrCollectTo(IF Len(g.clauseList) > 0 THEN deleteClauses(g.M, g.clauseList)
                 ELSE [M |-> g.M, ok |-> TRUE])

\* collectGarbage(rootList), and the clauses it returns are deleted
MgrCollect ==
    /\ mode = "mgr" /\ pc = "run"
    /\ mgr.gcCount < MaxCollect
    /\ \E roots \in SUBSET DOMAIN mgr.nodes :
        MgrCollectDelete(collectGarbage(mgr, SortedSeq(roots)))

InitMgr == \E lrat \in BOOLEAN : ManagerInit(lrat)

NextMgr ==
    \/ MgrFindOrMake
    \/ MgrOr
    \/ MgrAndJustify
    \/ MgrEquant
    \/ MgrCollect

SpecMgr == InitMgr /\ [][NextMgr]_vars

---------------------------------------------------------------------------
(* The operations of the Manager on the literal nodes of a solver and on   *)
(* the nodes the operations return.                                        *)

\* Operations in one run
MaxOps == 3

\* The Manager as Solver.__init__ leaves it for a CNF that declares MaxVar
\* variables, before the terms of the clauses are made
OpsMade(l) ==
    /\ mgr = l.M
    /\ litMap = l.litMap
    /\ activeIds = <<>>
    /\ storeTerms = <<>>
    /\ termCount = 0
    /\ unsat = FALSE
    /\ idStack = <<>>
    /\ registerDict = <<>>
    /\ buckets = <<>>
    /\ blevel = 0
    /\ nid = 0
    /\ cnf = <<>>
    /\ mode = "ops"
    /\ pc = "run"
    /\ last = [op |-> "init", a |-> leaf0, b |-> leaf0, n |-> leaf0,
               check |-> TRUE, just |-> tautologyId, step |-> 0]

OpsTo(op, a, b, r, check, just) ==
    /\ mgr' = r.M
    /\ last' = [op |-> op, a |-> a, b |-> b, n |-> r.n, check |-> check,
                just |-> just, step |-> last.step + 1]
    /\ UNCHANGED <<litMap, activeIds, storeTerms, termCount, unsat, idStack,
                   registerDict, buckets, blevel, nid, cnf, mode, pc>>

Operating == mode = "ops" /\ last.step < MaxOps

\* applyOr(nodeA, nodeB)
OpsOr ==
    /\ Operating
    /\ \E nodeA, nodeB \in Handles(mgr) :
        OpsTo("applyOr", nodeA, nodeB, applyOr(mgr, nodeA, nodeB),
              TRUE, tautologyId)

\* applyAndJustify(nodeA, nodeB)
OpsAndJustify ==
    /\ Operating
    /\ \E nodeA, nodeB \in Handles(mgr) :
        LET r == applyAndJustify(mgr, nodeA, nodeB)
        IN OpsTo("applyAndJustify", nodeA, nodeB, r, TRUE, r.just)

\* equant(node, clause) for a clause of positive literals
OpsEquant ==
    /\ Operating
    /\ \E node, clause \in Handles(mgr) :
        /\ ~IsLeaf(clause)
        /\ IsVarClause(mgr, clause)
        /\ OpsTo("equant", node, clause, equant(mgr, node, clause),
                 TRUE, tautologyId)

\* justifyImply(nodeA, nodeB)
OpsImply ==
    /\ Operating
    /\ \E nodeA, nodeB \in Handles(mgr) :
        LET i == justifyImply(mgr, nodeA, nodeB)
        IN OpsTo("justifyImply", nodeA, nodeB, [M |-> i.M, n |-> nodeB],
                 i.check, i.just)

InitOps ==
    \E lrat \in BOOLEAN :
        OpsMade(MakeLiterals([M |-> NewManager(Identity(MaxVar), lrat),
                              litMap |-> <<>>], 1))

NextOps ==
    \/ OpsOr
    \/ OpsAndJustify
    \/ OpsEquant
    \/ OpsImply

SpecOps == InitOps /\ [][NextOps]_vars

\* applyNot(node)
OpsNot ==
    /\ Operating
    /\ \E node \in Handles(mgr) :
        OpsTo("applyNot", node, node, applyNot(mgr, node), TRUE, tautologyId)

\* The apply operations on the literals and on the nodes returned
NextApply ==
    \/ OpsOr
    \/ OpsAndJustify
    \/ OpsNot

SpecApply == InitOps /\ [][NextApply]_vars

---------------------------------------------------------------------------
(* The trigger of garbage collection                                       *)
(*                                                                         *)
(* A Manager with two variables more than the threshold and no root        *)
(* generator, holding the literal nodes.  A client quantifies a leaf by    *)
(* the clause of one variable, which equant adds to the quantified set,    *)
(* and calls checkGC, in any order.  A step records the operation, what    *)
(* checkGC returned, and the operation before.                             *)

GcVars == gcThreshold + 2

GcMade(l) ==
    /\ mgr = l.M
    /\ litMap = l.litMap
    /\ activeIds = <<>>
    /\ storeTerms = <<>>
    /\ termCount = 0
    /\ unsat = FALSE
    /\ idStack = <<>>
    /\ registerDict = <<>>
    /\ buckets = <<>>
    /\ blevel = 0
    /\ nid = 0
    /\ cnf = <<>>
    /\ mode = "gc"
    /\ pc = "run"
    /\ last = [op |-> "init", clause |-> leaf0, collected |-> FALSE,
               clauseList |-> <<>>, prev |-> "init"]

GcInit ==
    \E lrat \in BOOLEAN :
        GcMade(MakeLiterals([M |-> NewManager(Identity(GcVars), lrat),
                             litMap |-> <<>>], 1))

GcTo(op, clause, g) ==
    /\ mgr' = g.M
    /\ last' = [op |-> op, clause |-> clause, collected |-> g.collected,
                clauseList |-> g.clauseList, prev |-> last.op]
    /\ UNCHANGED <<litMap, activeIds, storeTerms, termCount, unsat, idStack,
                   registerDict, buckets, blevel, nid, cnf, mode, pc>>

\* equant(leaf1, clause) at the top level
GcEquant ==
    /\ mode = "gc"
    /\ \E v \in 1..GcVars :
        GcTo("equant", litMap[v],
             [M |-> equant(mgr, leaf1, litMap[v]).M, collected |-> FALSE,
              clauseList |-> <<>>])

\* checkGC()
GcCheck ==
    /\ mode = "gc"
    /\ GcTo("checkGC", leaf0, checkGC(mgr, <<>>))

NextGc ==
    \/ GcEquant
    \/ GcCheck

SpecGc == GcInit /\ [][NextGc]_vars

---------------------------------------------------------------------------
(* The command-line run                                                    *)
(*                                                                         *)
(* A run is given the state of its files and the way the solver's run      *)
(* ends; last holds them with the error met and the exit status of the     *)
(* process: 0 when run returns, 1 when an exception leaves it.             *)

\* The ways the run of a solver ends
Outcomes == {"sat", "unsat"} \cup Exceptions

\* The file of an option: not given, good, or with a fault
PermFiles == {"absent", "ok", "unreadable", "not integers", "no permutation"}
SchedFiles == {"absent", "ok", "unreadable"}

\* readPermutation: None for a file that cannot be opened, a line that is
\* no list of integers and a list that Permuter rejects
readPermutation(file) == IF file = "ok" THEN "permuter" ELSE "None"

\* readScheduler: None for a file that cannot be opened
readScheduler(file) == IF file = "ok" THEN "actionList" ELSE "None"

RunMade(perm, sched, proofOpens, cnfParses, doBucket, outcome) ==
    /\ mgr = NewManager(Identity(MaxVar), FALSE)
    /\ litMap = <<>>
    /\ activeIds = <<>>
    /\ storeTerms = <<>>
    /\ termCount = 0
    /\ unsat = FALSE
    /\ idStack = <<>>
    /\ registerDict = <<>>
    /\ buckets = <<>>
    /\ blevel = 0
    /\ nid = 0
    /\ cnf = <<>>
    /\ mode = "cli"
    /\ pc = "options"
    /\ last = [perm |-> perm, sched |-> sched, proofOpens |-> proofOpens,
               cnfParses |-> cnfParses, doBucket |-> doBucket,
               outcome |-> outcome, error |-> "none", status |-> -1]

\* run is left: by a return, or by an exception that nothing catches
RunExit(error, status) ==
    /\ pc' = "exit"
    /\ last' = [last EXCEPT !.error = error, !.status = status]
    /\ UNCHANGED <<mgr, litMap, activeIds, storeTerms, termCount, unsat,
                   idStack, registerDict, buckets, blevel, nid, cnf, mode>>

RunGoes(stage) ==
    /\ pc' = stage
    /\ UNCHANGED <<mgr, litMap, activeIds, storeTerms, termCount, unsat,
                   idStack, registerDict, buckets, blevel, nid, cnf, mode, last>>

\* The loop over the options: -p and -s return when the reader gave None
RunOptions ==
    /\ mode = "cli"
    /\ pc = "options"
    /\ IF last.perm # "absent" /\ readPermutation(last.perm) = "None"
       THEN RunExit("permutation file", 0)
       ELSE IF last.sched # "absent" /\ readScheduler(last.sched) = "None"
       THEN RunExit("schedule file", 0)
       ELSE RunGoes("prover")

\* The test of -b with -s, and the Prover made in the try statement
RunProver ==
    /\ mode = "cli"
    /\ pc = "prover"
    /\ IF last.doBucket /\ last.sched # "absent"
       THEN RunExit("bucket and schedule", 0)
       ELSE IF ~last.proofOpens THEN RunExit("proof file", 0)
       ELSE RunGoes("solver")

\* Solver(cnfName, ...): CnfReader's exception is written and raised again
RunSolver ==
    /\ mode = "cli"
    /\ pc = "solver"
    /\ IF ~last.cnfParses THEN RunExit("cnf", 1)
       ELSE RunGoes("run")

\* The solver's run and the lines after it
RunSchedule ==
    /\ mode = "cli"
    /\ pc = "run"
    /\ IF last.outcome \in Exceptions THEN RunExit(last.outcome, 1)
       ELSE RunExit("none", 0)

InitRun ==
    \E perm \in PermFiles : \E sched \in SchedFiles :
        \E proofOpens, cnfParses, doBucket \in BOOLEAN :
            \E outcome \in Outcomes :
                RunMade(perm, sched, proofOpens, cnfParses, doBucket, outcome)

NextRun ==
    \/ RunOptions
    \/ RunProver
    \/ RunSolver
    \/ RunSchedule

SpecRun == InitRun /\ [][NextRun]_vars

---------------------------------------------------------------------------
(* stream.CompressArray *)

\* The while loop of append: the bytes of u, low seven bits first
RECURSIVE appendLoop(_)
appendLoop(u) ==
    IF u >= 128 THEN <<(u % 128) + 128>> \o appendLoop(u \div 128)
    ELSE <<u>>

\* append with u = 2|x| for every x
appendUnsigned(bytes, x) ==
    bytes \o appendLoop(IF x >= 0 THEN 2 * x ELSE 2 * (-x))

\* CompressArray.append: the bytes after
append(bytes, x) ==
    bytes \o appendLoop(IF x >= 0 THEN 2 * x ELSE 2 * (-x) + 1)

\* CompressArray.__init__: the bytes of a list of integers
RECURSIVE CompressFrom(_, _)
CompressFrom(bytes, ilist) ==
    IF ilist = <<>> THEN bytes
    ELSE CompressFrom(append(bytes, Head(ilist)), Tail(ilist))

CompressArray(ilist) == CompressFrom(<<>>, ilist)

\* toList: the integer of a finished u; -u//2 is the floor of (-u)/2
toListValue(u) ==
    IF u % 2 = 0 THEN u \div 2 ELSE -((u + 1) \div 2)

RECURSIVE toListLoop(_, _, _, _)

\* toList: the byte b has been added to u
toListByte(rest, result, weight, u, b) ==
    IF b < 128 THEN toListLoop(rest, Append(result, toListValue(u)), 0, 0)
    ELSE toListLoop(rest, result, weight + 7, u)

\* toList: the loop over the bytes
toListLoop(bytes, result, weight, u) ==
    IF bytes = <<>> THEN result
    ELSE toListByte(Tail(bytes), result, weight,
                    u + (Head(bytes) % 128) * 2^weight, Head(bytes))

\* CompressArray.toList
toList(bytes) == toListLoop(bytes, <<>>, 0, 0)

\* Integers appended to one array at most
MaxFields == 2
\* The integers from -MaxSmall to MaxSmall are appended, and the ones at
\* which the encoding gets a third and a fourth byte
MaxSmall == 70

StreamInts ==
    ((-MaxSmall)..MaxSmall)
    \cup {x * s : x \in {8191, 8192, 1048575, 1048576}, s \in {-1, 1}}

\* CompressArray(): no bytes
StreamInit ==
    /\ mgr = NewManager(<<>>, FALSE)
    /\ litMap = <<>>
    /\ activeIds = <<>>
    /\ storeTerms = <<>>
    /\ termCount = 0
    /\ unsat = FALSE
    /\ idStack = <<>>
    /\ registerDict = <<>>
    /\ buckets = <<>>
    /\ blevel = 0
    /\ nid = 0
    /\ cnf = <<>>
    /\ mode = "stream"
    /\ pc = "run"
    /\ last = [op |-> "init", x |-> 0, ilist |-> <<>>, before |-> <<>>,
               bytes |-> <<>>, list |-> toList(<<>>)]

\* append(x), and toList() of the array after
StreamAppend ==
    /\ mode = "stream"
    /\ Len(last.ilist) < MaxFields
    /\ \E x \in StreamInts :
          last' = [op |-> "append", x |-> x, ilist |-> Append(last.ilist, x),
                   before |-> last.bytes, bytes |-> append(last.bytes, x),
                   list |-> toList(append(last.bytes, x))]
    /\ UNCHANGED <<mgr, litMap, activeIds, storeTerms, termCount, unsat,
                   idStack, registerDict, buckets, blevel, nid, cnf, mode, pc>>

NextStream == StreamAppend

SpecStream == StreamInit /\ [][NextStream]_vars

---------------------------------------------------------------------------
(* The records of a binary LRAT proof *)

\* createClause with doBinary: the bytes written for a clause that is not
\* an input clause, whose cleaned literals are result
createBytes(clauseCount, result, antecedent) ==
    CompressArray(<<clauseCount, 97>> \o result \o <<0>> \o antecedent \o <<0>>)

\* deleteClauses with doBinary: the bytes written
deleteBytes(clauseCount, clauseList) ==
    CompressArray(<<clauseCount, 100>> \o clauseList \o <<0>>)

\* The clause ids of the records: with one byte, two bytes and three
BinaryIds == {1, 63, 64, 200, 8192}

\* Lists of up to two of the integers xs
ShortLists(xs) == {<<>>} \cup {<<x>> : x \in xs} \cup {<<x, y>> : x, y \in xs}

BinaryInit ==
    /\ mgr = NewManager(<<>>, TRUE)
    /\ litMap = <<>>
    /\ activeIds = <<>>
    /\ storeTerms = <<>>
    /\ termCount = 0
    /\ unsat = FALSE
    /\ idStack = <<>>
    /\ registerDict = <<>>
    /\ buckets = <<>>
    /\ blevel = 0
    /\ nid = 0
    /\ cnf = <<>>
    /\ mode = "binary"
    /\ pc = "run"
    /\ last = [op |-> "init", id |-> 0, lits |-> <<>>, ids |-> <<>>,
               bytes |-> <<>>]

BinaryTo(op, id, lits, ids, bytes) ==
    /\ last' = [op |-> op, id |-> id, lits |-> lits, ids |-> ids,
                bytes |-> bytes]
    /\ UNCHANGED <<mgr, litMap, activeIds, storeTerms, termCount, unsat,
                   idStack, registerDict, buckets, blevel, nid, cnf, mode, pc>>

\* The record of a clause that createClause gave the id
BinaryCreate ==
    /\ mode = "binary"
    /\ \E id \in BinaryIds : \E result \in ShortLists({1, -1, 70, -70}) :
       \E antecedent \in ShortLists({i \in BinaryIds : i < id}) :
          BinaryTo("createClause", id, result, antecedent,
                   createBytes(id, result, antecedent))

\* The record of a deletion after the clause id was the last one
BinaryDelete ==
    /\ mode = "binary"
    /\ \E id \in BinaryIds :
       \E clauseList \in ShortLists({i \in BinaryIds : i <= id}) :
          BinaryTo("deleteClauses", id, <<>>, clauseList,
                   deleteBytes(id, clauseList))

NextBinary == BinaryCreate \/ BinaryDelete

SpecBinary == BinaryInit /\ [][NextBinary]_vars

---------------------------------------------------------------------------
(* Properties of the strategies *)

\* C1: for a CNF of at least two clauses the sequential strategy ends with
\* UNSAT (unsat set by a combine whose root is leaf0) exactly when no
\* assignment satisfies all the clauses, and with SAT otherwise.
C1_SeqDecides ==
    (mode = "seq" /\ Len(cnf) >= 2) =>
        /\ pc \notin Exceptions
        /\ pc = "unsat" => (/\ unsat
                            /\ ~Satisfiable(cnf, MaxVar)
                            /\ \E id \in DOMAIN activeIds :
                                  activeIds[id].root = leaf0)
        /\ pc = "sat" => (~unsat /\ Satisfiable(cnf, MaxVar))
        /\ unsat => pc = "unsat"

\* An unsatisfiable CNF of three clauses ran to UNSAT; none of its pairs of
\* clauses is unsatisfiable
C1_Witness ==
    /\ mode = "seq"
    /\ pc = "unsat"
    /\ Len(cnf) = 3
    /\ \A i \in 1..3 : Satisfiable(SubSeqAt(cnf, 1..3 \ {i}), MaxVar)

\* C2: for every accepted CNF and variable order, bucket elimination ends
\* with UNSAT exactly when the CNF is unsatisfiable, and when it ends with
\* SAT every active term left has root leaf1.
C2_BucketDecides ==
    mode = "bucket" =>
        /\ pc \notin Exceptions
        /\ pc = "unsat" => (unsat /\ ~Satisfiable(cnf, MaxVar))
        /\ pc = "sat" => (/\ ~unsat
                          /\ Satisfiable(cnf, MaxVar)
                          /\ \A id \in DOMAIN activeIds :
                                activeIds[id].root = leaf1)
        /\ unsat => pc = "unsat"

\* A satisfiable CNF ended with SAT under a variable order that is not the
\* identity, after terms were quantified
C2_Witness ==
    /\ mode = "bucket"
    /\ pc = "sat"
    /\ mgr.varId # Identity(MaxVar)
    /\ Len(cnf) = MaxClauses
    /\ Cardinality(mgr.qvars) = MaxVar

---------------------------------------------------------------------------
(* Properties of terms, the proof and garbage collection *)

\* The terms the solver holds
HeldTerms ==
    {activeIds[id] : id \in DOMAIN activeIds}
    \cup {storeTerms[id] : id \in DOMAIN storeTerms}

\* C3: a term with root leaf0 comes from a combine step; its validation is
\* a clause that step created, the last clause added to the proof, and the
\* literal list stored and written for it is empty.
C3_EmptyClauseValidation ==
    \A id \in DOMAIN activeIds :
        activeIds[id].root = leaf0 =>
            /\ last.op = "combine"
            /\ id = termCount
            /\ activeIds[id].validation > last.before
            /\ activeIds[id].validation = mgr.clauseCount
            /\ activeIds[id].validation \in DOMAIN mgr.clauseDict
            /\ mgr.clauseDict[activeIds[id].validation] = <<>>
            /\ mgr.proof[Len(mgr.proof)].id = activeIds[id].validation
            /\ mgr.proof[Len(mgr.proof)].lits = <<>>

\* Bucket elimination reached the empty clause after quantifying a variable
C3_Witness ==
    /\ mode = "bucket"
    /\ pc = "unsat"
    /\ mgr.qvars # {}
    /\ activeIds[termCount].root = leaf0

\* C4: every active or stored term whose root is not leaf1 has a validation
\* id that is in the clause dictionary with the literal list [root.id] (the
\* empty list for leaf0), and no validation id is among the ids a garbage
\* collection deletes.
C4_ValidationKept ==
    /\ \A t \in HeldTerms :
        t.root # leaf1 =>
            /\ t.validation \in DOMAIN mgr.clauseDict
            /\ mgr.clauseDict[t.validation] =
                    (IF t.root = leaf0 THEN <<>> ELSE <<t.root>>)
    /\ \A t \in HeldTerms \cup {registerDict[n].term : n \in DOMAIN registerDict} :
        /\ t.validation \notin Range(last.gc.clauseList)
        /\ \A i \in DOMAIN mgr.deletions :
              t.validation \notin Range(mgr.deletions[i].ids)

\* After a garbage collection deleted clauses, terms were combined while a
\* stored term with a nonleaf root was held
C4_Witness ==
    /\ mode = "sched"
    /\ pc = "run"
    /\ mgr.gcCount > 0
    /\ mgr.deletions # <<>>
    /\ last.op = "a"
    /\ \E id \in DOMAIN storeTerms : ~IsLeaf(storeTerms[id].root)
    /\ \E id \in DOMAIN activeIds : activeIds[id].root # leaf1

\* C6: every antecedent of a clause added to the proof is smaller in
\* absolute value than the clause's id and names a clause that is in the
\* clause dictionary when the clause is added.
C6_AntecedentsLive ==
    \A i \in DOMAIN mgr.proof :
        /\ mgr.proof[i].dead = {}
        /\ \A j \in DOMAIN mgr.proof[i].ants :
              Abs(mgr.proof[i].ants[j]) < mgr.proof[i].id

\* The nodes reachable from a node
RECURSIVE Reachable(_, _)
Reachable(M, n) ==
    IF IsLeaf(n) THEN {}
    ELSE {n} \cup Reachable(M, High(M, n)) \cup Reachable(M, Low(M, n))

C8_RegistersProtected ==
    last.gc.collected =>
        \A r \in last.gc.regRoots : IsLeaf(r) \/ r \in last.gc.roots

\* C10: every node in the unique table has high # low.
C10_Reduced ==
    \A n \in mgr.table : High(mgr, n) # Low(mgr, n)

\* The clauses written have the ids 1, 2, 3, ... in the order they were
\* created, and the counter is the last id
ConsecutiveIds ==
    /\ mgr.clauseCount = Len(mgr.proof)
    /\ \A i \in DOMAIN mgr.proof : mgr.proof[i].id = i

\* A request that is no tautology returned clauseCount + 1 and made it the
\* counter
NextIdGiven ==
    (last.op = "createClause" /\ ~last.taut) =>
        /\ last.id = last.prev.clauseCount + 1
        /\ mgr.clauseCount = last.id
        /\ last.id \in DOMAIN mgr.clauseDict
        /\ mgr.proof = Append(last.prev.proof, mgr.proof[last.id])

\* C5: the clauses written have the ids 1, 2, 3, ... in the order they
\* were created; a request that is no tautology returns clauseCount + 1 and
\* makes it the counter, and a request that is a tautology returns the
\* sentinel and leaves the counter, the dictionary and the clause records
\* of the output as they were, but its comment line is written when one is
\* given and the verbosity is above 1.
C5_ConsecutiveIds ==
    mode = "prover" =>
        /\ ConsecutiveIds
        /\ NextIdGiven
        /\ (last.op = "createClause" /\ last.taut) =>
            /\ last.id = tautologyId
            /\ mgr.clauseCount = last.prev.clauseCount
            /\ mgr.clauseDict = last.prev.clauseDict
            /\ mgr.proof = last.prev.proof
            /\ mgr.deletions = last.prev.deletions
            /\ mgr.comments = last.prev.comments
                  + (IF last.given /\ mgr.verbLevel > 1 THEN 1 ELSE 0)

\* A tautology was asked for with a comment at verbosity 2, after clauses
\* were created and one deleted
C5_Witness ==
    /\ mode = "prover"
    /\ last.op = "createClause"
    /\ last.taut
    /\ last.given
    /\ mgr.verbLevel = 2
    /\ mgr.clauseCount = 2
    /\ Cardinality(DOMAIN mgr.clauseDict) = 1

\* C5 as stated: a request that is a tautology leaves the counter, the
\* clause dictionary and the output unchanged.
C5_TautologySilent ==
    mode = "prover" =>
        /\ ConsecutiveIds
        /\ NextIdGiven
        /\ (last.op = "createClause" /\ last.taut) =>
            /\ last.id = tautologyId
            /\ mgr.clauseCount = last.prev.clauseCount
            /\ mgr.clauseDict = last.prev.clauseDict
            /\ mgr.proof = last.prev.proof
            /\ mgr.deletions = last.prev.deletions
            /\ mgr.comments = last.prev.comments

\* C9: the unique table holds at most one node for a key (level, high.id,
\* low.id), and findOrMake for a key that is in the table returns the node
\* of that key and creates no clause and no node.
C9_Canonical ==
    /\ \A a, b \in mgr.table :
          (/\ mgr.nodes[a].level = mgr.nodes[b].level
           /\ mgr.nodes[a].high = mgr.nodes[b].high
           /\ mgr.nodes[a].low = mgr.nodes[b].low) => a = b
    /\ (mode = "mgr" /\ last.op = "findOrMake" /\ last.hit # {}) =>
          /\ last.n \in last.hit
          /\ mgr.clauseCount = last.clauseCount
          /\ mgr.nextNodeId = last.nextNodeId
          /\ mgr.table = last.table

\* findOrMake was called for a key that was in the table, after a
\* collection
C9_Witness ==
    /\ mode = "mgr"
    /\ last.op = "findOrMake"
    /\ last.hit # {}
    /\ mgr.gcCount > 0
    /\ mgr.nodesRemoved > 0

---------------------------------------------------------------------------
(* Properties of the Manager's nodes and operations *)

\* C11: the level of every internal node is strictly smaller than the level
\* of each child that is not a leaf (a leaf's level compares as greater than
\* every level).
C11_Ordered ==
    \A n \in DOMAIN mgr.nodes :
        /\ VarLT(Level(mgr, n), Level(mgr, High(mgr, n)))
        /\ VarLT(Level(mgr, n), Level(mgr, Low(mgr, n)))

\* An operation returned a node that is no literal node and has a child that
\* is not a leaf
C11_Witness ==
    /\ mode = "ops"
    /\ last.op \in {"applyOr", "applyAndJustify", "equant"}
    /\ ~IsLeaf(last.n)
    /\ last.n \notin Range(litMap)
    /\ \E c \in {High(mgr, last.n), Low(mgr, last.n)} : ~IsLeaf(c)

\* C12: every node id that is an operand in a key of the operation cache
\* and every node that is a cached result is a leaf or a node in the unique
\* table (the result of an "imply" entry is the check, not a node).
C12_CacheLive ==
    \A i \in DOMAIN mgr.cache :
        /\ \A k \in 2..Len(mgr.cache[i].key) :
              IsLeaf(mgr.cache[i].key[k]) \/ mgr.cache[i].key[k] \in mgr.table
        /\ mgr.cache[i].key[1] # "imply" =>
              (IsLeaf(mgr.cache[i].val.res) \/ mgr.cache[i].val.res \in mgr.table)

\* The value of the function of a node under the assignment that makes
\* the variables of the levels in asg true and the others false
RECURSIVE Eval(_, _, _)
Eval(M, n, asg) ==
    IF n = leaf1 THEN TRUE
    ELSE IF n = leaf0 THEN FALSE
    ELSE IF Level(M, n) \in asg THEN Eval(M, High(M, n), asg)
    ELSE Eval(M, Low(M, n), asg)

\* The function of a node over the variables the clauses use: the
\* assignments that satisfy it
Sem(M, n) == {asg \in SUBSET (1..MaxVar) : Eval(M, n, asg)}

\* The terms the solver holds or a register names
KnownTerms ==
    HeldTerms \cup {registerDict[name].term : name \in DOMAIN registerDict}

\* C13: for any two terms made by combine and quantify steps, equalityTest
\* is true exactly when the two roots have the same function.
C13_EqualityIsSemantic ==
    \A t1, t2 \in KnownTerms :
        equalityTest(t1, t2) <=> (Sem(mgr, t1.root) = Sem(mgr, t2.root))


\* The assignments that extend asg over the variables vs
Extensions(asg, vs) == {(asg \ vs) \cup ext : ext \in SUBSET vs}

\* The nonleaf nodes below (and including) a node
RECURSIVE Below(_, _)
Below(M, n) ==
    IF IsLeaf(n) THEN {}
    ELSE {n} \cup Below(M, High(M, n)) \cup Below(M, Low(M, n))

\* C14: equant(node, clause) is the existential quantification of node over
\* the variables of clause: the result is true under an assignment iff some
\* extension over the listed variables satisfies node, it does not depend on
\* a listed variable, and it is node itself when node is a leaf or every
\* listed variable comes before every variable of node
C14_EquantQuantifies ==
    (mode = "ops" /\ last.op = "equant") =>
        /\ \A asg \in SUBSET (1..MaxVar) :
              Eval(mgr, last.n, asg) <=>
                  \E e \in Extensions(asg, ClauseVars(mgr, last.b)) :
                      Eval(mgr, last.a, e)
        /\ \A v \in ClauseVars(mgr, last.b) : \A asg \in SUBSET (1..MaxVar) :
              Eval(mgr, last.n, asg) <=> Eval(mgr, last.n, asg \ {v})
        /\ \A m \in Below(mgr, last.n) :
              Level(mgr, m) \notin ClauseVars(mgr, last.b)
        /\ (\/ IsLeaf(last.a)
            \/ \A v \in ClauseVars(mgr, last.b) :
                  \A m \in Below(mgr, last.a) : VarLT(v, Level(mgr, m)))
              => last.n = last.a

\* An equant that quantified a variable of a node with two nonleaf levels
C14_Witness ==
    /\ mode = "ops"
    /\ last.op = "equant"
    /\ ~IsLeaf(last.a)
    /\ last.n # last.a
    /\ ~IsLeaf(last.n)
    /\ \E m \in Below(mgr, last.a) : Level(mgr, m) \in ClauseVars(mgr, last.b)

\* An equant whose listed variables all come before the node's
C14_WitnessAbove ==
    /\ mode = "ops"
    /\ last.op = "equant"
    /\ ~IsLeaf(last.a)
    /\ \A v \in ClauseVars(mgr, last.b) : VarLT(v, Level(mgr, last.a))

\* The pairs that justifyImply answers without a cache lookup
ImplySpecial(a, b) ==
    a = b \/ a = leaf0 \/ b = leaf1 \/ a = leaf1 \/ b = leaf0

\* C15: justifyImply(A, B) returns check = true iff the function of A
\* implies the function of B; it returns (true, sentinel) when A = B,
\* A = leaf0 or B = leaf1, (false, sentinel) when otherwise A = leaf1 or
\* B = leaf0, and a true check for any other pair comes with a clause id
C15_ImplyIsSemantic ==
    (mode = "ops" /\ last.op = "justifyImply") =>
        /\ last.check <=> (Sem(mgr, last.a) \subseteq Sem(mgr, last.b))
        /\ (last.a = last.b \/ last.a = leaf0 \/ last.b = leaf1)
              => (last.check /\ last.just = tautologyId)
        /\ (/\ ~(last.a = last.b \/ last.a = leaf0 \/ last.b = leaf1)
            /\ (last.a = leaf1 \/ last.b = leaf0))
              => (~last.check /\ last.just = tautologyId)
        /\ (last.check /\ ~ImplySpecial(last.a, last.b))
              => last.just # tautologyId

---------------------------------------------------------------------------
(* Properties of the scheduled run's commands *)

\* C16: Term.quantify never raises the 'Implication failed' exception: for
\* every term the solver reaches and every list of quantified variables
\* the implication from the term's root to the equant result is found
C16_ImplicationHolds == pc # "BddException"

\* A q command that replaced a nonleaf root by a different root and stored
\* the implication between the two in the cache
C16_Witness ==
    /\ mode = "sched"
    /\ last.op = "q"
    /\ pc = "run"
    /\ \E i \in DOMAIN mgr.cache :
          /\ mgr.cache[i].key[1] = "imply"
          /\ mgr.cache[i].val.res = 1
          /\ Len(idStack) > 0
          /\ Top(idStack) \in DOMAIN activeIds
          /\ mgr.cache[i].key[3] = activeIds[Top(idStack)].root

\* The ids an a command with last.count takes from the stack it found
Popped ==
    {last.stack[i] : i \in (Len(last.stack) - last.count)..Len(last.stack)}

\* The assignments that satisfy the roots of all popped terms
PoppedSem ==
    {asg \in SUBSET (1..MaxVar) :
        \A id \in Popped : Eval(mgr, last.active[id].root, asg)}

\* a <count> found count + 1 ids on the stack, different and all active
ConjFound ==
    /\ mode = "conj"
    /\ last.op = "a"
    /\ Len(last.stack) >= last.count + 1
    /\ Popped \subseteq DOMAIN last.active
    /\ Cardinality(Popped) = last.count + 1

\* The run stopped with UNSAT, or the stack holds a new term for the
\* conjunction in place of the popped ids
Conjoined ==
    \/ /\ pc = "unsat"
       /\ unsat
       /\ PoppedSem = {}
    \/ /\ pc = "run"
       /\ Len(idStack) = Len(last.stack) - last.count
       /\ Top(idStack) \notin DOMAIN last.active
       /\ Top(idStack) \in DOMAIN activeIds
       /\ Sem(mgr, activeIds[Top(idStack)].root) = PoppedSem
       /\ Popped \cap DOMAIN activeIds = {}
       /\ Pop(idStack, 1) = Pop(last.stack, last.count + 1)

\* C17 (as amended): a n with n >= 1 on a stack of depth d >= n + 1 whose
\* top n + 1 ids are different active terms stops the run with UNSAT or
\* leaves a stack of depth d - n whose top id is a new active term for the
\* conjunction of the popped terms, the popped ids removed from the active
\* map and the entries below untouched; a n with n <= 0 changes nothing
C17_ConjoinsTop ==
    ConjFound =>
        IF last.count >= 1 THEN Conjoined
        ELSE /\ pc = "run"
             /\ idStack = last.stack
             /\ activeIds = last.active

\* C17 as stated, for every n >= 0
C17_AnyCount == (ConjFound /\ last.count >= 0) => Conjoined

\* a 2 that conjoined three terms into a new satisfiable one
C17_Witness ==
    /\ ConjFound
    /\ last.count = 2
    /\ pc = "run"
    /\ ~IsLeaf(activeIds[Top(idStack)].root)

\* a 2 that stopped with UNSAT
C17_WitnessUnsat == ConjFound /\ last.count = 2 /\ pc = "unsat"

FaultAborts ==
    /\ pc' = "SolverException"
    /\ UNCHANGED <<mgr, activeIds, storeTerms, idStack, registerDict>>

\* C19: a schedule fault aborts the run with SolverException before the
\* command changes anything: a with too few entries on the stack, q, i or s
\* on an empty stack, e with fewer than two entries, r or d of a name that
\* is not defined, an unknown command, and a field that is not an integer
C19_FaultsAbort ==
    [][/\ (Len(idStack) < 2 /\ CmdA) => FaultAborts
       /\ (Len(idStack) = 0 /\ (CmdQ \/ CmdI \/ CmdS)) => FaultAborts
       /\ (Len(idStack) < 2 /\ CmdE) => FaultAborts
       /\ (registerDict = <<>> /\ (CmdR \/ CmdD)) => FaultAborts
       /\ (CmdUnknown \/ CmdBadInt) => FaultAborts]_vars

\* C19 without the s command
C19_FaultsAbortButS ==
    [][/\ (Len(idStack) < 2 /\ CmdA) => FaultAborts
       /\ (Len(idStack) = 0 /\ (CmdQ \/ CmdI)) => FaultAborts
       /\ (Len(idStack) < 2 /\ CmdE) => FaultAborts
       /\ (registerDict = <<>> /\ (CmdR \/ CmdD)) => FaultAborts
       /\ (CmdUnknown \/ CmdBadInt) => FaultAborts]_vars

---------------------------------------------------------------------------
(* Properties of the command-line run *)

\* The error outcomes of a run
RunErrors ==
    {"cnf", "proof file", "permutation file", "schedule file",
     "SolverException", "BddException"}

\* C20: the run ends with exit status 0 when it completes with SAT or
\* UNSAT, and with a nonzero status on every error outcome: a CNF that
\* does not parse, a proof file that cannot be opened, a permutation file
\* that is invalid or cannot be read, a schedule file that cannot be read,
\* a schedule error and an exception of the BDD package
C20_ExitStatus ==
    (mode = "cli" /\ pc = "exit") =>
        /\ last.error = "none" => last.status = 0
        /\ last.error \in RunErrors => last.status # 0

\* The part of C20 for the completed runs and the exceptions nothing catches
C20_ExitStatusRaised ==
    (mode = "cli" /\ pc = "exit") =>
        /\ last.error = "none" => last.status = 0
        /\ last.error \in {"cnf", "SolverException", "BddException"}
              => last.status # 0

---------------------------------------------------------------------------
(* The schedule writer of the benchmark generators (writer.py)             *)
(*                                                                         *)
(* A ScheduleWriter is the record of its fields: outfile ("open" or        *)
(* "None"), the lines of the file, stackDepth, decrementAnd, verbose, and  *)
(* the lines printed.  A line is [cmd, ints, text] for the command letter, *)
(* its integer fields and its text field.  A generator calls the methods   *)
(* in any order and finish last; a step records the method, the line that  *)
(* was asked for, whether the call met an anomaly, and the lines printed   *)
(* before it.                                                              *)

Line(cmd, ints, text) == [cmd |-> cmd, ints |-> ints, text |-> text]

\* Writer.__init__ and ScheduleWriter.__init__, the file opened
ScheduleWriter(verbose) ==
    [outfile |-> "open", file |-> <<>>, stackDepth |-> 0,
     decrementAnd |-> FALSE, verbose |-> verbose, stdout |-> <<>>]

\* print of a warning
Warning(w, text) ==
    [w EXCEPT !.stdout = Append(@, Line("Warning", <<>>, text))]

\* Writer.show: [w, exc]
show(w, line) ==
    [w |-> [w EXCEPT !.stdout = IF w.verbose THEN Append(@, line) ELSE @,
                     !.file = IF w.outfile # "None" THEN Append(@, line)
                              ELSE @],
     exc |-> "none"]

\* Writer.finish
WriterFinish(w) ==
    IF w.outfile = "None" THEN [w |-> w, exc |-> "none"]
    ELSE [w |-> [w EXCEPT !.outfile = "None"], exc |-> "none"]

\* ScheduleWriter.getClauses
getClauses(w, clist) ==
    [w |-> [show(w, Line("c", clist, "")).w EXCEPT
                !.stackDepth = @ + Len(clist)],
     exc |-> "none"]

\* ScheduleWriter.newTree
newTree(w) == [w |-> [w EXCEPT !.decrementAnd = TRUE], exc |-> "none"]

\* doAnd: the count after the decrement
AndCount(w, count) == IF w.decrementAnd THEN count - 1 ELSE count

\* doAnd with the exception in place of the warning
doAndRaising(w, count) ==
    IF AndCount(w, count) + 1 > w.stackDepth
    THEN [w |-> [w EXCEPT !.decrementAnd = FALSE], exc |-> "WriterException"]
    ELSE [w |-> [show([w EXCEPT !.decrementAnd = FALSE],
                      Line("a", <<AndCount(w, count)>>, "")).w EXCEPT
                    !.stackDepth = @ - AndCount(w, count)],
          exc |-> "none"]

\* ScheduleWriter.doAnd
doAnd(w, count) ==
    [w |-> [show(IF AndCount(w, count) + 1 > w.stackDepth
                 THEN Warning([w EXCEPT !.decrementAnd = FALSE],
                              "Cannot perform And's")
                 ELSE [w EXCEPT !.decrementAnd = FALSE],
                 Line("a", <<AndCount(w, count)>>, "")).w EXCEPT
                !.stackDepth = @ - AndCount(w, count)],
     exc |-> "none"]

\* ScheduleWriter.doStore
doStore(w, name) == show(w, Line("s", <<>>, name))

\* ScheduleWriter.doRetrieve
doRetrieve(w, name) == show(w, Line("r", <<>>, name))

\* ScheduleWriter.doDelete
doDelete(w, name) == show(w, Line("d", <<>>, name))

\* ScheduleWriter.doEquality
doEquality(w) == show(w, Line("e", <<>>, ""))

\* ScheduleWriter.doQuantify
doQuantify(w, vlist) ==
    show(IF w.stackDepth = 0 THEN Warning(w, "Cannot quantify") ELSE w,
         Line("q", vlist, ""))

\* ScheduleWriter.doComment
doComment(w, cstring) == show(w, Line("#", <<>>, cstring))

\* ScheduleWriter.doInformation
doInformation(w, cstring) == show(w, Line("i", <<>>, cstring))

\* ScheduleWriter.finish
finish(w) ==
    WriterFinish(IF w.stackDepth # 1 THEN Warning(w, "Invalid schedule")
                 ELSE w)

\* Calls a generator makes before finish, at most
MaxCalls == 4

WriterLists == {<<1>>, <<1, 2>>}
WriterNames == {"X"}

WriterInit ==
    /\ mgr = NewManager(<<>>, FALSE)
    /\ litMap = <<>>
    /\ activeIds = <<>>
    /\ storeTerms = <<>>
    /\ termCount = 0
    /\ unsat = FALSE
    /\ idStack = <<>>
    /\ registerDict = <<>>
    /\ buckets = <<>>
    /\ blevel = 0
    /\ nid = 0
    /\ cnf = <<>>
    /\ mode = "writer"
    /\ pc = "run"
    /\ \E verbose \in BOOLEAN :
          last = [op |-> "init", w |-> ScheduleWriter(verbose),
                  asked |-> <<>>, calls |-> 0, anomaly |-> FALSE,
                  printed |-> 0]

WriterTo(op, asked, anomaly, r) ==
    /\ pc' = IF r.exc = "none" THEN "run" ELSE r.exc
    /\ last' = [op |-> op, w |-> r.w, asked |-> last.asked \o asked,
                calls |-> last.calls + 1, anomaly |-> anomaly,
                printed |-> Len(last.w.stdout)]
    /\ UNCHANGED <<mgr, litMap, activeIds, storeTerms, termCount, unsat,
                   idStack, registerDict, buckets, blevel, nid, cnf, mode>>

\* The generator has the writer and goes on
Writing ==
    /\ mode = "writer" /\ pc = "run"
    /\ last.w.outfile = "open"
    /\ last.calls < MaxCalls

WGetClauses ==
    /\ Writing
    /\ \E clist \in WriterLists :
        WriterTo("getClauses", <<Line("c", clist, "")>>, FALSE,
                 getClauses(last.w, clist))

WNewTree ==
    /\ Writing
    /\ WriterTo("newTree", <<>>, FALSE, newTree(last.w))

WDoAnd ==
    /\ Writing
    /\ \E count \in 0..2 :
        WriterTo("doAnd", <<Line("a", <<AndCount(last.w, count)>>, "")>>,
                 AndCount(last.w, count) + 1 > last.w.stackDepth,
                 doAnd(last.w, count))

WDoStore ==
    /\ Writing
    /\ \E name \in WriterNames :
        WriterTo("doStore", <<Line("s", <<>>, name)>>, FALSE,
                 doStore(last.w, name))

WDoRetrieve ==
    /\ Writing
    /\ \E name \in WriterNames :
        WriterTo("doRetrieve", <<Line("r", <<>>, name)>>, FALSE,
                 doRetrieve(last.w, name))

WDoDelete ==
    /\ Writing
    /\ \E name \in WriterNames :
        WriterTo("doDelete", <<Line("d", <<>>, name)>>, FALSE,
                 doDelete(last.w, name))

WDoEquality ==
    /\ Writing
    /\ WriterTo("doEquality", <<Line("e", <<>>, "")>>, FALSE,
                doEquality(last.w))

WDoQuantify ==
    /\ Writing
    /\ \E vlist \in WriterLists :
        WriterTo("doQuantify", <<Line("q", vlist, "")>>,
                 last.w.stackDepth = 0, doQuantify(last.w, vlist))

WDoComment ==
    /\ Writing
    /\ WriterTo("doComment", <<Line("#", <<>>, "text")>>, FALSE,
                doComment(last.w, "text"))

WDoInformation ==
    /\ Writing
    /\ WriterTo("doInformation", <<Line("i", <<>>, "text")>>, FALSE,
                doInformation(last.w, "text"))

\* finish ends the generator's use of the writer
WFinish ==
    /\ mode = "writer" /\ pc = "run"
    /\ last.w.outfile = "open"
    /\ WriterTo("finish", <<>>, last.w.stackDepth # 1, finish(last.w))

NextWriter ==
    \/ WGetClauses
    \/ WNewTree
    \/ WDoAnd
    \/ WDoStore
    \/ WDoRetrieve
    \/ WDoDelete
    \/ WDoEquality
    \/ WDoQuantify
    \/ WDoComment
    \/ WDoInformation
    \/ WFinish

SpecWriter == WriterInit /\ [][NextWriter]_vars

---------------------------------------------------------------------------
(* Term.combine on the terms of a solver                                   *)
(*                                                                         *)
(* The terms are those of the clauses of a CNF, the term with root leaf1   *)
(* and the sentinel as validation that a quantification leaves, and the    *)
(* terms earlier calls returned.  A step records the operands, what        *)
(* applyAndJustify returns for their roots (node, justification, clause    *)
(* counter and length of the proof after it), and the term returned.       *)

\* Calls of combine at most
MaxCombines == 2

CombineInit ==
    \E clauses \in CNFs(MaxVar, 2) : \E lrat \in BOOLEAN :
        /\ mgr = NewSolver(clauses, Identity(MaxVar), lrat).M
        /\ litMap = NewSolver(clauses, Identity(MaxVar), lrat).litMap
        /\ activeIds = NewSolver(clauses, Identity(MaxVar), lrat).activeIds
        /\ storeTerms = <<>>
        /\ termCount = Len(clauses)
        /\ unsat = FALSE
        /\ idStack = <<>>
        /\ registerDict = <<>>
        /\ buckets = <<>>
        /\ blevel = 0
        /\ nid = 0
        /\ cnf = clauses
        /\ mode = "combine"
        /\ pc = "run"
        /\ last = [op |-> "init", self |-> Term(leaf1, tautologyId),
                   other |-> Term(leaf1, tautologyId), n |-> leaf1,
                   just |-> tautologyId, count |-> 0, written |-> 0,
                   term |-> Term(leaf1, tautologyId)]

CombineTerms ==
    {activeIds[id] : id \in DOMAIN activeIds} \cup {Term(leaf1, tautologyId)}

CombineTo(self, other, r, c) ==
    /\ mgr' = c.M
    /\ activeIds' = DictPut(activeIds, termCount + 1, c.term)
    /\ termCount' = termCount + 1
    /\ last' = [op |-> "combine", self |-> self, other |-> other, n |-> r.n,
                just |-> r.just, count |-> r.M.clauseCount,
                written |-> Len(r.M.proof), term |-> c.term]
    /\ UNCHANGED <<litMap, storeTerms, unsat, idStack, registerDict, buckets,
                   blevel, nid, cnf, mode, pc>>

\* self.combine(other)
CombineCall ==
    /\ mode = "combine"
    /\ termCount < Len(cnf) + MaxCombines
    /\ \E self, other \in CombineTerms :
        CombineTo(self, other,
                  applyAndJustify(mgr, self.root, other.root),
                  combine(mgr, self, other))

NextCombine == CombineCall

SpecCombine == CombineInit /\ [][NextCombine]_vars

---------------------------------------------------------------------------
(* The operation cache under the operations and a collection              *)
(*                                                                         *)
(* A Manager with the literal nodes of a solver.  A client calls applyAnd, *)
(* applyAndJustify, applyXor and justifyImply on the nodes made so far and *)
(* collectGarbage with any root list, deleting the clauses it returns.  A  *)
(* step records the operation, its operands and result, and for a          *)
(* collection the cache it found, the marked nodes and the list returned.  *)

CacheMade(l) ==
    /\ mgr = l.M
    /\ litMap = l.litMap
    /\ activeIds = <<>>
    /\ storeTerms = <<>>
    /\ termCount = 0
    /\ unsat = FALSE
    /\ idStack = <<>>
    /\ registerDict = <<>>
    /\ buckets = <<>>
    /\ blevel = 0
    /\ nid = 0
    /\ cnf = <<>>
    /\ mode = "cache"
    /\ pc = "run"
    /\ last = [op |-> "init", a |-> leaf0, b |-> leaf0, n |-> leaf0,
               just |-> tautologyId, step |-> 0, cache |-> <<>>,
               marked |-> {}, clauseList |-> <<>>, before |-> l.M]

CacheInit ==
    CacheMade(MakeLiterals([M |-> NewManager(Identity(MaxVar), TRUE),
                            litMap |-> <<>>], 1))

CacheTo(op, a, b, M, n, just, marked, clauseList, outcome) ==
    /\ mgr' = M
    /\ pc' = outcome
    /\ last' = [op |-> op, a |-> a, b |-> b, n |-> n, just |-> just,
                step |-> last.step + 1, cache |-> mgr.cache,
                marked |-> marked, clauseList |-> clauseList, before |-> mgr]
    /\ UNCHANGED <<litMap, activeIds, storeTerms, termCount, unsat, idStack,
                   registerDict, buckets, blevel, nid, cnf, mode>>

CacheOperating == mode = "cache" /\ pc = "run" /\ last.step < MaxOps

CacheAndTo(nodeA, nodeB, r) ==
    CacheTo("applyAnd", nodeA, nodeB, r.M, r.n, tautologyId, {}, <<>>, "run")

\* applyAnd(nodeA, nodeB)
CacheAnd ==
    /\ CacheOperating
    /\ \E nodeA, nodeB \in Handles(mgr) :
        CacheAndTo(nodeA, nodeB, applyAnd(mgr, nodeA, nodeB))

CacheAndJustifyTo(nodeA, nodeB, r) ==
    CacheTo("applyAndJustify", nodeA, nodeB, r.M, r.n, r.just, {}, <<>>, "run")

\* applyAndJustify(nodeA, nodeB)
CacheAndJustify ==
    /\ CacheOperating
    /\ \E nodeA, nodeB \in Handles(mgr) :
        CacheAndJustifyTo(nodeA, nodeB, applyAndJustify(mgr, nodeA, nodeB))

CacheXorTo(nodeA, nodeB, r) ==
    CacheTo("applyXor", nodeA, nodeB, r.M, r.n, tautologyId, {}, <<>>, "run")

\* applyXor(nodeA, nodeB)
CacheXor ==
    /\ CacheOperating
    /\ \E nodeA, nodeB \in Handles(mgr) :
        CacheXorTo(nodeA, nodeB, applyXor(mgr, nodeA, nodeB))

CacheImplyTo(nodeA, nodeB, i) ==
    CacheTo("justifyImply", nodeA, nodeB, i.M, IF i.check THEN 1 ELSE 0,
            i.just, {}, <<>>, "run")

\* justifyImply(nodeA, nodeB)
CacheImply ==
    /\ CacheOperating
    /\ \E nodeA, nodeB \in Handles(mgr) :
        CacheImplyTo(nodeA, nodeB, justifyImply(mgr, nodeA, nodeB))

CacheCollectTo(g, d) ==
    CacheTo("collectGarbage", leaf0, leaf0, d.M, leaf0, tautologyId,
            g.marked, g.clauseList, IF d.ok THEN "run" ELSE "KeyError")

CacheCollectDelete(g) ==
    CacheCollectTo(g, IF Len(g.clauseList) > 0
                      THEN deleteClauses(g.M, g.clauseList)
                      ELSE [M |-> g.M, ok |-> TRUE])

\* collectGarbage(rootList): cleanCache raises TypeError at a value that is
\* no tuple; otherwise the clauses returned are deleted
CacheCollect ==
    /\ CacheOperating
    /\ mgr.gcCount < MaxCollect
    /\ \E roots \in SUBSET DOMAIN mgr.nodes :
        IF \E i \in DOMAIN mgr.cache : ~IsTuple(mgr.cache[i].val)
        THEN CacheTo("collectGarbage", leaf0, leaf0,
                     cleanCacheRaising(mgr, doMarking(mgr, roots, {})),
                     leaf0, tautologyId, doMarking(mgr, roots, {}), <<>>,
                     "TypeError")
        ELSE CacheCollectDelete(collectGarbage(mgr, SortedSeq(roots)))

NextCache ==
    \/ CacheAnd
    \/ CacheAndJustify
    \/ CacheXor
    \/ CacheImply
    \/ CacheCollect

SpecCache == CacheInit /\ [][NextCache]_vars

---------------------------------------------------------------------------
(* Properties of the proof output *)

IsAscending(s) == \A i \in 1..(Len(s) - 1) : s[i] <= s[i + 1]

\* C21: for every clause written to the proof the antecedents are written
\* in ascending order in tracecheck mode and in the order the caller
\* supplied in LRAT mode, and the literals and the id are the same in both
C21_AntecedentOrder ==
    mode = "modes" =>
        /\ Len(mgr.proof) = Len(last.lrat.proof)
        /\ last.id = last.lratId
        /\ \A i \in DOMAIN mgr.proof :
              /\ IsAscending(mgr.proof[i].ants)
              /\ mgr.proof[i].ants = SortInts(last.lrat.proof[i].ants)
              /\ mgr.proof[i].id = last.lrat.proof[i].id
              /\ mgr.proof[i].lits = last.lrat.proof[i].lits
        /\ (last.op = "createClause" /\ last.id # tautologyId) =>
              last.lrat.proof[last.id].ants = last.ants

\* A clause was written whose antecedents the caller gave in another order
\* than the ascending one
C21_Witness ==
    /\ mode = "modes"
    /\ last.op = "createClause"
    /\ last.id # tautologyId
    /\ Len(last.ants) = 2
    /\ ~IsAscending(last.ants)
    /\ mgr.proof[last.id].lits # <<>>

\* What deleteClauses leaves of a Prover whose state was M: the listed ids
\* are gone from the dictionary, nothing else is
Deleted(M, after, clauseList) ==
    /\ after.clauseDict = DictRemove(M.clauseDict, Range(clauseList))
    /\ after.clauseCount = M.clauseCount
    /\ after.proof = M.proof
    /\ after.comments = M.comments

\* C22: deleteClauses(ids) that returns removes exactly the listed ids from
\* the clause dictionary and leaves clauseCount unchanged; in tracecheck
\* mode it writes nothing, and in LRAT mode it writes one deletion record,
\* which leads with the current clauseCount and lists the ids
C22_DeletionRecord ==
    [][(last'.op = "deleteClauses" /\ pc' = "run") =>
          /\ Deleted(mgr, mgr', last'.ants)
          /\ mgr'.deletions = mgr.deletions
          /\ Deleted(last.lrat, last'.lrat, last'.ants)
          /\ last'.lrat.deletions =
                Append(last.lrat.deletions,
                       [last |-> last.lrat.clauseCount, ids |-> last'.ants])
      ]_vars

\* Two clauses were deleted in one call after a later clause was created
C22_Witness ==
    /\ mode = "modes"
    /\ last.op = "deleteClauses"
    /\ pc = "run"
    /\ Len(last.ants) = 2
    /\ mgr.clauseCount = MaxIds
    /\ Cardinality(DOMAIN mgr.clauseDict) = 1
    /\ Len(last.lrat.deletions) = 1
    /\ mgr.deletions = <<>>

\* The unsigned value of an integer: 2|x| or 2|x| + 1
Unsigned(x) == IF x >= 0 THEN 2 * x ELSE 2 * (-x) + 1

RECURSIVE Pow128(_)
Pow128(n) == IF n = 0 THEN 1 ELSE 128 * Pow128(n - 1)

\* The value of seven-bit groups, the low group first
RECURSIVE GroupsValue(_)
GroupsValue(bs) ==
    IF bs = <<>> THEN 0 ELSE (Head(bs) % 128) + 128 * GroupsValue(Tail(bs))

\* The bytes the last append added
Added == SubSeq(last.bytes, Len(last.before) + 1, Len(last.bytes))

\* C23: append encodes x as u = 2|x| (x >= 0) or 2|x| + 1 (x < 0) in
\* seven-bit groups, the least significant first, every byte but the last
\* with bit 0x80 set and the last below 128; 0 is the single byte 0
C23_VarByte ==
    (mode = "stream" /\ last.op = "append") =>
        /\ SubSeq(last.bytes, 1, Len(last.before)) = last.before
        /\ Len(Added) >= 1
        /\ \A i \in 1..(Len(Added) - 1) : Added[i] \in 128..255
        /\ Added[Len(Added)] \in 0..127
        /\ Len(Added) > 1 => Added[Len(Added)] # 0
        /\ \A i \in 1..Len(Added) :
              Added[i] % 128 = (Unsigned(last.x) \div Pow128(i - 1)) % 128
        /\ GroupsValue(Added) = Unsigned(last.x)
        /\ last.x = 0 => Added = <<0>>

\* A negative integer was appended whose encoding has three bytes, after
\* another integer
C23_Witness ==
    /\ mode = "stream"
    /\ last.op = "append"
    /\ last.x < 0
    /\ Len(Added) = 3
    /\ last.before # <<>>

\* A record of a binary proof with the marker bytes between the encoded
\* clause id and the fields, each list of fields closed by a zero byte
Framed(marker) ==
    IF last.op = "createClause"
    THEN CompressArray(<<last.id>>) \o marker \o CompressArray(last.lits)
            \o <<0>> \o CompressArray(last.ids) \o <<0>>
    ELSE CompressArray(<<last.id>>) \o marker \o CompressArray(last.ids)
            \o <<0>>

\* C24: in a binary LRAT proof every addition record has the byte 0x61
\* ('a') and every deletion record the byte 0x64 ('d') right after the
\* encoded clause id, and every list of fields ends with a zero byte
C24_LiteralMarker ==
    (mode = "binary" /\ last.op # "init") =>
        last.bytes = Framed(IF last.op = "createClause" THEN <<97>>
                            ELSE <<100>>)

\* The records as written: the letter is encoded as a field, in the two
\* bytes 0xC2 0x01 for 'a' and 0xC8 0x01 for 'd'
C24_EncodedMarker ==
    (mode = "binary" /\ last.op # "init") =>
        last.bytes = Framed(IF last.op = "createClause" THEN <<194, 1>>
                            ELSE <<200, 1>>)

---------------------------------------------------------------------------
(* Properties of the Manager's counters, ids and collections *)

\* applyNot(applyNot(node))
NotNot(M, node) == applyNot(applyNot(M, node).M, applyNot(M, node).n).n

\* C25: for every node x built from literals by apply operations
\* applyNot(applyNot(x)) is the node x, with the 'not' entries of x and of
\* its negation in the cache and without them
C25_DoubleNegation ==
    mode = "ops" => \A x \in Handles(mgr) : NotNot(mgr, x) = x

\* applyNot was applied to a node with a nonleaf child; its entry is in the
\* cache while a node made since has none
C25_Witness ==
    /\ mode = "ops"
    /\ \E x \in DOMAIN mgr.nodes :
          /\ CacheHas(mgr, <<"not", x>>)
          /\ \E c \in {High(mgr, x), Low(mgr, x)} : ~IsLeaf(c)
    /\ \E y \in DOMAIN mgr.nodes \ Range(litMap) : ~CacheHas(mgr, <<"not", y>>)

\* C26: nodeCount is the number of internal nodes findOrMake ever created,
\* the unique table holds nodeCount - nodesRemoved nodes, and
\* |uniqueTable| <= maxLiveCount <= nodeCount
C26_Counters ==
    mode = "mgr" =>
        /\ mgr.nodeCount = Cardinality(DOMAIN mgr.nodes)
        /\ Cardinality(mgr.table) = mgr.nodeCount - mgr.nodesRemoved
        /\ Cardinality(mgr.table) <= mgr.maxLiveCount
        /\ mgr.maxLiveCount <= mgr.nodeCount

\* A collection removed a node, a node was made after it, and the maximum
\* is below the number of nodes made
C26_Witness ==
    /\ mode = "mgr"
    /\ mgr.nodesRemoved >= 1
    /\ \E n \in mgr.table : \A d \in DOMAIN mgr.nodes \ mgr.table : n > d
    /\ mgr.maxLiveCount < mgr.nodeCount

\* The ids of the nodes a step creates
Created == DOMAIN mgr'.nodes \ DOMAIN mgr.nodes

\* A step gives every node it creates an id of its own above every id given
\* before, and leaves the nodes made before with their ids
FreshIds ==
    /\ DOMAIN mgr.nodes \subseteq DOMAIN mgr'.nodes
    /\ Cardinality(Created) = mgr'.nodeCount - mgr.nodeCount
    /\ \A n \in Created :
          /\ n >= mgr.nextNodeId
          /\ n < mgr'.nextNodeId
          /\ \A d \in DOMAIN mgr.nodes : n > d
    /\ \A d \in DOMAIN mgr.nodes :
          /\ d < mgr.nextNodeId
          /\ mgr'.nodes[d].level = mgr.nodes[d].level
          /\ mgr'.nodes[d].high = mgr.nodes[d].high
          /\ mgr'.nodes[d].low = mgr.nodes[d].low

\* C27: node ids are positive and above the number of input variables,
\* strictly increasing in creation order, and never reused, also when a
\* collection removed a node and the same triple is created again
C27_NodeIds ==
    [][mode = "mgr" =>
          /\ FreshIds
          /\ \A n \in DOMAIN mgr'.nodes : n > 0 /\ n > Len(mgr'.varId)]_vars

\* A node that a collection removed and a node in the table made later for
\* the same level and children
C27_Witness ==
    /\ mode = "mgr"
    /\ \E d \in DOMAIN mgr.nodes \ mgr.table : \E n \in mgr.table :
          /\ n > d
          /\ mgr.nodes[n].level = mgr.nodes[d].level
          /\ mgr.nodes[n].high = mgr.nodes[d].high
          /\ mgr.nodes[n].low = mgr.nodes[d].low

\* |quantifiedVariableSet| - lastGC
NewQuants(M) == Cardinality(M.qvars) - M.lastGC

\* checkGC collects exactly above the threshold and only then touches the
\* Manager
CheckCollects ==
    /\ last'.collected <=> NewQuants(mgr) > gcThreshold
    /\ last'.collected =>
          /\ mgr'.lastGC = Cardinality(mgr.qvars)
          /\ mgr'.gcCount = mgr.gcCount + 1
          /\ mgr'.qvars = mgr.qvars
          /\ NewQuants(mgr') = 0
    /\ ~last'.collected =>
          /\ last'.clauseList = <<>>
          /\ mgr' = mgr
    /\ (last.op = "checkGC" /\ last.collected) => ~last'.collected

\* equant leaves lastGC and gcCount alone, and a variable quantified before
\* leaves the trigger where it was
EquantAdvances ==
    /\ mgr'.lastGC = mgr.lastGC
    /\ mgr'.gcCount = mgr.gcCount
    /\ mgr'.qvars = mgr.qvars \cup {Level(mgr, last'.clause)}
    /\ Level(mgr, last'.clause) \in mgr.qvars => NewQuants(mgr') = NewQuants(mgr)
    /\ Level(mgr, last'.clause) \notin mgr.qvars =>
          NewQuants(mgr') = NewQuants(mgr) + 1

\* C28: checkGC collects exactly when |quantifiedVariableSet| - lastGC is
\* above gcThreshold; a collection sets lastGC to the size of the set and
\* adds one to gcCount, a checkGC right after it returns the empty list and
\* collects nothing, and quantifying a variable again does not advance the
\* trigger
C28_Trigger ==
    [][/\ last'.op = "checkGC" => CheckCollects
       /\ last'.op = "equant" => EquantAdvances]_vars

\* checkGC collected, a variable was quantified again, and the checkGC that
\* followed collected nothing
C28_Witness ==
    /\ last.op = "checkGC"
    /\ last.prev = "equant"
    /\ ~last.collected
    /\ mgr.gcCount = 1
    /\ mgr.nodesRemoved > 0
    /\ NewQuants(mgr) = 0

---------------------------------------------------------------------------
(* Properties of the schedule writer *)

\* The warnings among the lines printed
Warnings(out) == SelectSeq(out, LAMBDA l : l.cmd = "Warning")

\* C29: a doAnd for more terms than the tracked depth has, a doQuantify at
\* depth 0 and a finish at a depth other than 1 print a warning, raise no
\* exception and write their command or close the file, so the file holds
\* the commands asked for in the order of the calls
C29_WarningsOnly ==
    mode = "writer" =>
        /\ pc = "run"
        /\ last.w.file = last.asked
        /\ last.op = "finish" => last.w.outfile = "None"
        /\ Len(Warnings(last.w.stdout)) =
              Len(Warnings(SubSeq(last.w.stdout, 1, last.printed)))
              + (IF last.anomaly THEN 1 ELSE 0)

\* A doAnd and a doQuantify met an anomaly, and the finish that followed at
\* a depth other than 1 closed a file of three lines
C29_Witness ==
    /\ mode = "writer"
    /\ last.op = "finish"
    /\ last.anomaly
    /\ Len(Warnings(last.w.stdout)) = 3
    /\ \E i, j \in DOMAIN last.w.file :
          last.w.file[i].cmd = "a" /\ last.w.file[j].cmd = "q"

---------------------------------------------------------------------------
(* Properties of the sequential strategy *)

\* The run made at most M - 1 combine steps, no exception ended it, and SAT
\* leaves one active term, the one whose models are listed
SeqEnds ==
    /\ pc \notin Exceptions
    /\ termCount - Len(cnf) <= Len(cnf) - 1
    /\ pc = "sat" =>
          /\ Cardinality(DOMAIN activeIds) = 1
          /\ nid \in DOMAIN activeIds

\* C30: for every CNF of M >= 1 clauses the sequential strategy ends after
\* at most M - 1 combine steps without error, and on SAT the one active
\* term that remains is the term whose models are printed, M = 1 included
C30_SequentialEnds == mode = "seq" => SeqEnds

\* The same for the CNFs of two clauses or more
C30_FromTwoClauses == (mode = "seq" /\ Len(cnf) >= 2) => SeqEnds

\* A combine step removes two ids from the active map and adds one id that
\* is larger than every id before
C30_Steps ==
    [][(mode = "seq" /\ last'.op = "combine") =>
          /\ termCount' = termCount + 1
          /\ \E i, j \in DOMAIN activeIds :
                /\ i # j
                /\ DOMAIN activeIds' = (DOMAIN activeIds \ {i, j}) \cup {termCount'}
          /\ \A id \in DOMAIN activeIds : id < termCount']_vars

\* A run of three clauses ended with SAT after two combine steps
C30_WitnessSat ==
    /\ mode = "seq"
    /\ pc = "sat"
    /\ Len(cnf) = 3
    /\ termCount = 5

---------------------------------------------------------------------------
(* Properties of Term.combine and of the justified conjunction *)

\* The antecedents combine hands to createClause
CombineAnts ==
    <<last.self.validation, last.other.validation>>
    \o (IF last.just # tautologyId THEN <<last.just>> ELSE <<>>)

\* combine reused the validation of an operand
CombineReuses ==
    /\ mgr.clauseCount = last.count
    /\ Len(mgr.proof) = last.written
    /\ last.term.validation =
          IF last.n = last.self.root THEN last.self.validation
          ELSE last.other.validation

\* combine created the clause of the new root
CombineCreates ==
    /\ mgr.clauseCount = last.count + 1
    /\ Len(mgr.proof) = last.written + 1
    /\ last.term.validation = mgr.clauseCount
    /\ mgr.proof[Len(mgr.proof)].id = mgr.clauseCount
    /\ mgr.proof[Len(mgr.proof)].lits =
          (IF last.n = leaf0 THEN <<>> ELSE <<last.n>>)
    /\ mgr.proof[Len(mgr.proof)].ants =
          (IF mgr.doLrat THEN CombineAnts ELSE SortInts(CombineAnts))

\* C31: Term.combine creates no validation clause exactly when
\* applyAndJustify returns the sentinel as justification and the new root is
\* the root of an operand, and then the result carries that operand's
\* validation, self before other; in every other case it creates the clause
\* [newRoot.id] (with no literal for leaf0) with the antecedents
\* [self.validation, other.validation] and the justification when it is
\* not the sentinel
C31_CombineValidation ==
    (mode = "combine" /\ last.op = "combine") =>
        /\ last.term.root = last.n
        /\ (last.just = tautologyId
             /\ last.n \in {last.self.root, last.other.root}) => CombineReuses
        /\ ~(last.just = tautologyId
             /\ last.n \in {last.self.root, last.other.root}) => CombineCreates

\* combine gave the new term the validation of the other operand, whose
\* root is not the root of self
C31_Witness ==
    /\ mode = "combine"
    /\ last.op = "combine"
    /\ last.just = tautologyId
    /\ last.n = last.other.root
    /\ last.n # last.self.root
    /\ ~IsLeaf(last.n)
    /\ last.term.validation = last.other.validation

\* The entries applyAndJustify stored
AndEntries == {i \in DOMAIN mgr.cache : mgr.cache[i].key[1] = "and"}

\* The level applyAndJustify splits the operands of an entry at
AndSplit(e) == MinVar(Level(mgr, e.key[2]), Level(mgr, e.key[3]))

\* What the recursive calls of the entry's call return, now that they are
\* cached or constant
AndHigh(e) ==
    applyAndJustify(mgr, branchHigh(mgr, e.key[2], AndSplit(e)),
                         branchHigh(mgr, e.key[3], AndSplit(e)))
AndLow(e) ==
    applyAndJustify(mgr, branchLow(mgr, e.key[2], AndSplit(e)),
                         branchLow(mgr, e.key[3], AndSplit(e)))

\* The ITE clauses of a node that are clauses
IteClauses(n) ==
    IF IsLeaf(n) THEN {}
    ELSE {c \in {mgr.nodes[n].inferTrueUp, mgr.nodes[n].inferFalseUp,
                 mgr.nodes[n].inferTrueDown, mgr.nodes[n].inferFalseDown} :
            c # tautologyId}

\* The justification of an entry was created after the justifications of
\* the recursive calls and after the ITE clauses of the operands and of the
\* result
AndJustLast(e) ==
    e.val.just # tautologyId =>
        /\ e.val.just \in 1..mgr.clauseCount
        /\ AndHigh(e).just # tautologyId => e.val.just > AndHigh(e).just
        /\ AndLow(e).just # tautologyId => e.val.just > AndLow(e).just
        /\ \A c \in IteClauses(e.key[2]) \cup IteClauses(e.key[3])
                    \cup IteClauses(e.val.res) : e.val.just > c

\* A call for the operands of an entry, in either order, returns the pair of
\* the entry and leaves the Manager as it is
AndHit(e) ==
    /\ applyAndJustify(mgr, e.key[2], e.key[3]) =
          [M |-> mgr, n |-> e.val.res, just |-> e.val.just]
    /\ applyAndJustify(mgr, e.key[3], e.key[2]) =
          [M |-> mgr, n |-> e.val.res, just |-> e.val.just]

\* C32: the justification a non-cached applyAndJustify(A, B) returns, when
\* it is a clause, has an id above the justifications the two recursive
\* calls returned and above the ITE clauses of A, B and the result; a later
\* call for the same operands returns the same node and justification from
\* the cache and creates no clause
C32_JustificationLast ==
    mode = "ops" =>
        /\ \A i \in AndEntries : AndJustLast(mgr.cache[i]) /\ AndHit(mgr.cache[i])
        /\ (last.op = "applyAndJustify" /\ ~IsLeaf(last.a) /\ ~IsLeaf(last.b)
            /\ last.a # last.b) =>
              \E i \in AndEntries :
                  /\ mgr.cache[i].key[2] = MinInt(last.a, last.b)
                  /\ mgr.cache[i].key[3] = MaxInt(last.a, last.b)
                  /\ mgr.cache[i].val.res = last.n
                  /\ mgr.cache[i].val.just = last.just

\* applyAndJustify returned a clause as justification for operands whose
\* recursive call returned a clause, too
C32_Witness ==
    /\ mode = "ops"
    /\ last.op = "applyAndJustify"
    /\ last.just # tautologyId
    /\ \E i \in AndEntries :
          /\ mgr.cache[i].val.just = last.just
          /\ AndHigh(mgr.cache[i]).just # tautologyId
          /\ mgr.cache[i].val.just > AndHigh(mgr.cache[i]).just

---------------------------------------------------------------------------
(* Properties of the clauses a Solver starts with *)

\* The record of the validation clause of the k-th term
ValidationOf(k) == mgr.proof[activeIds[k].validation]

\* The ITE clauses of the nodes of the chain of the k-th term's root
ChainClauses(k) ==
    UNION {IteClauses(deconstructClause(mgr, activeIds[k].root)[i]) :
              i \in DOMAIN deconstructClause(mgr, activeIds[k].root)}

\* The k-th input clause has the id k, and the validation of the k-th term
\* is a clause made after the input clauses from ITE clauses of the chain
\* and the clause k, no sentinel among them
InputValidated(k) ==
    /\ mgr.proof[k].id = k
    /\ mgr.proof[k].isInput
    /\ k \in DOMAIN mgr.clauseDict
    /\ activeIds[k].validation \in (Len(cnf) + 1)..mgr.clauseCount
    /\ ~ValidationOf(k).isInput
    /\ ValidationOf(k).lits = <<activeIds[k].root>>
    /\ tautologyId \notin Range(ValidationOf(k).ants)
    /\ Len(ValidationOf(k).ants) >= 2
    /\ Range(ValidationOf(k).ants) \ {k} \subseteq ChainClauses(k)

\* The input clause is the last antecedent listed
InputLast(k) == ValidationOf(k).ants[Len(ValidationOf(k).ants)] = k

\* C33 as stated: in every output mode the k-th input clause has the id k
\* and the validation clause of the k-th term lists k last, after the ITE
\* clauses of the chain, none of them the sentinel
C33_InputIdLast ==
    (mode = "seq" /\ pc = "start") =>
        \A k \in 1..Len(cnf) : InputValidated(k) /\ InputLast(k)

\* C33 amended: the k-th input clause has the id k in every mode; the
\* validation clause of the k-th term lists k last in an LRAT proof, and in
\* a tracecheck proof, whose antecedents are ascending, first
C33_InputIdListed ==
    (mode = "seq" /\ pc = "start") =>
        \A k \in 1..Len(cnf) :
            /\ InputValidated(k)
            /\ mgr.doLrat => InputLast(k)
            /\ ~mgr.doLrat =>
                  /\ IsAscending(ValidationOf(k).ants)
                  /\ ValidationOf(k).ants[1] = k

\* A solver of three clauses, the third of two literals, writing a
\* tracecheck proof
C33_Witness ==
    /\ mode = "seq"
    /\ pc = "start"
    /\ ~mgr.doLrat
    /\ Len(cnf) = 3
    /\ Len(cnf[3]) = 2
    /\ Len(ValidationOf(3).ants) > 2

---------------------------------------------------------------------------
(* Properties of the operation cache *)

\* The operations without proof
NoProofOps == {"not", "andnj", "or", "xor", "equant"}

\* C34: every value the operations not, andnj, or, xor and equant store in
\* the cache is the triple (node, sentinel, []), and a collection reads the
\* result and the clause list of every entry without error
C34_CacheTriples ==
    mode = "cache" =>
        /\ \A i \in DOMAIN mgr.cache :
              mgr.cache[i].key[1] \in NoProofOps =>
                  /\ IsTuple(mgr.cache[i].val)
                  /\ mgr.cache[i].val.just = tautologyId
                  /\ mgr.cache[i].val.clauses = <<>>
        /\ pc # "TypeError"

\* The same for the operations not and xor alone
C34_TriplesButAnd ==
    mode = "cache" =>
        \A i \in DOMAIN mgr.cache :
            mgr.cache[i].key[1] \in NoProofOps \ {"andnj"} =>
                /\ IsTuple(mgr.cache[i].val)
                /\ mgr.cache[i].val.just = tautologyId
                /\ mgr.cache[i].val.clauses = <<>>

\* A collection that came to its end has just run
CollectedCache ==
    mode = "cache" /\ last.op = "collectGarbage" /\ pc # "TypeError"

\* The entry e of the cache before the collection is in the cache after it
Retained(e) == \E j \in DOMAIN mgr.cache : mgr.cache[j] = e

OperandsMarked(e) == \A i \in 2..Len(e.key) : e.key[i] \in last.marked

\* The result of e is a marked node, or no node
ResultKept(e) == e.key[1] = "imply" \/ e.val.res \in last.marked

\* The clause lists of the entries the collection removed, in cache order
RemovedClauses ==
    ConcatAll([i \in DOMAIN last.cache |->
                  IF Retained(last.cache[i]) THEN <<>>
                  ELSE last.cache[i].val.clauses])

ReturnsRemoved ==
    /\ Len(last.clauseList) >= Len(RemovedClauses)
    /\ SubSeq(last.clauseList, 1, Len(RemovedClauses)) = RemovedClauses

\* C35: a collection removes a cache entry exactly when its result node or
\* an operand is unmarked; an entry of any operation, 'imply' included,
\* whose operands are marked and whose result is a marked node or no node
\* is retained, and the clause lists of exactly the removed entries are
\* returned
C35_ImplyRetained ==
    CollectedCache =>
        /\ \A i \in DOMAIN last.cache :
              Retained(last.cache[i]) <=>
                  (OperandsMarked(last.cache[i]) /\ ResultKept(last.cache[i]))
        /\ ReturnsRemoved

\* What the collection does: an entry with a node result is retained
\* exactly when result and operands are marked, an 'imply' entry never, and
\* the clause lists of the removed entries are returned
C35_ImplyRemoved ==
    CollectedCache =>
        /\ \A i \in DOMAIN last.cache :
              Retained(last.cache[i]) <=>
                  /\ last.cache[i].key[1] # "imply"
                  /\ OperandsMarked(last.cache[i])
                  /\ last.cache[i].val.res \in last.marked
        /\ ReturnsRemoved

\* An 'imply' entry with marked operands and clauses of its own met a
\* collection
C35_ImplyCollected ==
    /\ CollectedCache
    /\ \E i \in DOMAIN last.cache :
          /\ last.cache[i].key[1] = "imply"
          /\ OperandsMarked(last.cache[i])
          /\ last.cache[i].val.clauses # <<>>
    /\ \E i \in DOMAIN last.cache : Retained(last.cache[i])

---------------------------------------------------------------------------
(* Properties of the two conjunctions *)

\* The cache entries the last operation added
NewEntries ==
    {mgr.cache[i] : i \in DOMAIN mgr.cache} \
        {last.before.cache[i] : i \in DOMAIN last.before.cache}

\* The clauses the last operation added
NewClauses == (last.before.clauseCount + 1)..mgr.clauseCount

\* The nodes the last operation added
NewNodes == DOMAIN mgr.nodes \ DOMAIN last.before.nodes

\* Both conjunctions, called now on the operands of the last operation in
\* either order, give the node n
BothGive(n) ==
    /\ applyAnd(mgr, last.a, last.b).n = n
    /\ applyAnd(mgr, last.b, last.a).n = n
    /\ applyAndJustify(mgr, last.a, last.b).n = n
    /\ applyAndJustify(mgr, last.b, last.a).n = n

\* C38: applyAnd(A, B) and applyAndJustify(A, B) give the same node, in
\* either call order and on repeated calls; applyAnd stores 'andnj' keys
\* and applyAndJustify 'and' keys, and applyAnd creates no clauses but the
\* defining clauses of the nodes it makes
C38_SameConjunction ==
    /\ (mode = "cache" /\ last.op = "applyAnd") =>
          /\ BothGive(last.n)
          /\ \A e \in NewEntries : e.key[1] = "andnj"
          /\ NewClauses \subseteq UNION {IteClauses(n) : n \in NewNodes}
    /\ (mode = "cache" /\ last.op = "applyAndJustify") =>
          /\ BothGive(last.n)
          /\ \A e \in NewEntries : e.key[1] = "and"

\* applyAnd made a node for operands whose justified conjunction is in the
\* cache, and the justified conjunction was computed for operands whose
\* plain conjunction is in the cache
C38_Witness ==
    /\ mode = "cache"
    /\ last.op = "applyAnd"
    /\ last.n \in DOMAIN mgr.nodes \ {last.a, last.b}
    /\ CacheHas(mgr, <<"andnj", MinInt(last.a, last.b), MaxInt(last.a, last.b)>>)
    /\ CacheHas(mgr, <<"and", MinInt(last.a, last.b), MaxInt(last.a, last.b)>>)
    /\ NewEntries # {}
    /\ \E i \in DOMAIN mgr.cache :
          /\ mgr.cache[i].key[1] = "and"
          /\ mgr.cache[i].val.just # tautologyId
          /\ mgr.cache[i].val.res = last.n

---------------------------------------------------------------------------
(* Properties of bucket elimination *)

\* The bucket that holds the term id, or -1
BucketOf(b, id) ==
    IF \E l \in DOMAIN b : id \in Range(b[l])
    THEN CHOOSE l \in DOMAIN b : id \in Range(b[l])
    ELSE -1

\* No bucket of an index in 1..blevel-1 is changed by the step
LowerBucketsKept ==
    \A l \in 1..(blevel - 1) : buckets'[l] = buckets[l]

\* No root of an active term reaches a node of a level that is finished
FinishedLevelsGone ==
    \A id \in DOMAIN activeIds :
        \A n \in Reachable(mgr, activeIds[id].root) :
            Level(mgr, n) >= blevel

BucketStep ==
    /\ (mode = "bucket" /\ pc = "run" /\ pc' = "run") =>
          /\ blevel' >= blevel
          /\ LowerBucketsKept
          /\ FinishedLevelsGone'
    /\ (mode = "bucket" /\ pc = "run" /\ pc' = "run" /\ last'.op = "combine") =>
          /\ BucketOf(buckets', nid') >= blevel
          /\ blevel' = blevel
    /\ (mode = "bucket" /\ pc = "run" /\ pc' = "run" /\ last'.op = "quantify") =>
          /\ BucketOf(buckets', nid') > blevel \/ BucketOf(buckets', nid') = 0
          /\ blevel' = blevel + 1
          /\ blevel \notin mgr.qvars
          /\ mgr'.qvars = mgr.qvars \cup {blevel}

\* C36: while bucket b is processed no term is placed into a bucket of
\* 1..b-1: a conjunction of two terms of bucket b lands in bucket b or
\* higher, the result of quantifying level b above b or in bucket 0; each
\* level is quantified at most once, and no root of an active term reaches
\* a node of a finished level
C36_BucketsAscend == [][BucketStep]_vars

\* Level 1 was quantified, its result joined another term in a higher
\* bucket, and their conjunction was placed
C36_Witness ==
    /\ mode = "bucket"
    /\ pc = "run"
    /\ last.op = "combine"
    /\ blevel >= 2
    /\ Cardinality(mgr.qvars) >= 1
    /\ BucketOf(buckets, nid) >= blevel
    /\ ~IsLeaf(activeIds[nid].root)

---------------------------------------------------------------------------
(* Properties of the nodes a Solver hands to its Manager *)

Live(M, n) == IsLeaf(n) \/ n \in M.table

\* The unique table is closed under children
TableClosed ==
    \A n \in mgr.table : Live(mgr, High(mgr, n)) /\ Live(mgr, Low(mgr, n))

\* The roots of the active and stored terms are leaves or table nodes
RootsLive == \A t \in HeldTerms : Live(mgr, t.root)

\* The operands of the cache entries a step adds: the nodes its calls of
\* Manager operations were given, at the top and in the recursion
StepOperands ==
    UNION {{e.key[k] : k \in 2..Len(e.key)} :
              e \in Range(mgr'.cache) \ Range(mgr.cache)}

\* The literal nodes a q command hands to the Manager are leaves or table
\* nodes when handed over
LiteralsLive ==
    last'.op = "q" =>
        \A n \in StepOperands \cap Range(litMap) : Live(mgr, n)

\* C37: in every state of a solver run, collections included, the unique
\* table is closed under children, and the nodes handed to Manager
\* operations, roots of terms and literal nodes of litMap, are leaves or
\* nodes of the unique table
C37_NodesLive == [][TableClosed' /\ RootsLive' /\ LiteralsLive]_vars

---------------------------------------------------------------------------
(* Properties of CompressArray.toList *)

\* C39: for every list of integers l, CompressArray(l).toList() is l
C39_RoundTrip ==
    mode = "stream" => last.list = last.ilist

\* What toList returns: an integer that is not negative comes back, a
\* negative integer x comes back as x - 1
C39_NegativesShifted ==
    mode = "stream" =>
        /\ last.bytes = CompressArray(last.ilist)
        /\ Len(last.list) = Len(last.ilist)
        /\ \A i \in DOMAIN last.ilist :
              last.list[i] = IF last.ilist[i] >= 0 THEN last.ilist[i]
                             ELSE last.ilist[i] - 1

====
